---- MODULE Spec2Model ----
(***************************************************************************)
(* YouTrend duration model: the data pipeline (numeric parser, column      *)
(* normalizer, duration labeler, feature encoder) and the prediction       *)
(* engine (survival_probability), modelled from the Python sources.        *)
(*                                                                         *)
(* Instants are integers counted in seconds since the epoch.  A corpus     *)
(* keeps its instants as ticks of half a unit (half an hour or half a day, *)
(* the variable grain), so that the delay of 1.5 units is a whole number   *)
(* of ticks.  Reals are exact rationals [n |-> .., d |-> ..].              *)
(***************************************************************************)
EXTENDS Integers, Sequences, FiniteSets, TLC

VARIABLES
    corpus,       \* DurationLabeler: the Observation table (rows in index order)
    grain,        \* DurationLabeler: "hour" or "day", the tick of the corpus is half of it
    frequency,    \* DurationLabeler: the frequency argument of the last call
    delay2,       \* DurationLabeler: the delay argument of the last call, in halves
    labelled,     \* DurationLabeler: [done, rows] the table returned by the last call
    series,       \* NumericFieldParser: the input column [dtype, cells]
    parsed,       \* NumericFieldParser: [done, err, cells] the outcome of the last call
    frame,        \* ColumnNormalizer: the table, a column [dtype, cells] per column name
    clean_count,  \* ColumnNormalizer: the number of calls of _clean_columns on the table
    clean_err,    \* ColumnNormalizer: the exception of the last call, or "none"
    frame_once,   \* ColumnNormalizer: the table as the first call returned it
    train,        \* FeatureEncoder: the labelled training table (also the content of train.csv)
    fitted,       \* FeatureEncoder: the outcome of the fit-mode call
    applied,      \* FeatureEncoder: the outcome of the last apply-mode call
    FINAL_MODEL,  \* SurvivalPredictor: the fitted model shared by every call
    calls,        \* SurvivalPredictor: the call of survival_probability of each caller
    model_data,   \* SurvivalPredictor: data, the training table loaded with the module
    scaling,      \* PredictionPreprocessor: the arguments of _normalize [series, data_max, data_min]
    scaled,       \* PredictionPreprocessor: [done, values] the result of the last call of _normalize
    curve,        \* TrendCurveGenerator: the call of plot_survival_probability
    artifacts,    \* Start-up: the persisted files [encoder_pickle, data_csv]
    loaded,       \* Start-up: the namespace of the data module [pc, MODEL, VIDEO_CAT_ENCODER, DURATION_MODEL_DF]
    requests,     \* Start-up: the prediction requests encoded so far
    disk,         \* RawDatasetLoader: the content of each file of the data folder, or Absent
    load,         \* RawDatasetLoader: the call of _load_data [pc, use_filenames, files, err, table]
    full_df,      \* GroupSurvivalEstimator: the training table [dayOfWeek, videoCategory, isTrend, videoLengthDays]
    kmf,          \* GroupSurvivalEstimator: the call [pc, day, category, err, valid, fitted, label, sample]
    youtube       \* YouTube Data API: the record of each video as the platform holds it now

labelVars == <<corpus, grain, frequency, delay2, labelled>>
parseVars == <<series, parsed>>
cleanVars == <<frame, clean_count, clean_err, frame_once>>
encodeVars == <<train, fitted, applied>>
predictVars == <<FINAL_MODEL, calls, model_data>>
scaleVars == <<scaling, scaled>>
curveVars == <<curve>>
startVars == <<artifacts, loaded, requests>>
loadVars == <<disk, load>>
kmfVars == <<full_df, kmf>>
apiVars == <<youtube>>
vars == <<labelVars, parseVars, cleanVars, encodeVars, predictVars, scaleVars, curveVars, startVars, loadVars, kmfVars, apiVars>>

----------------------------------------------------------------------------
(* Bounds of the model *)
MaxRows == 3
MaxT == 3

MaxSeries == 2
MaxFrameRows == 2
MaxTrain == 2
MaxTick == 3
MaxScaleLen == 3
MaxScaleValue == 5
MaxSpan == 2
MaxRequests == 2
MaxListed == 2
MaxGroupRows == 2

(* Program constants *)
SecondsPerHour == 3600
SecondsPerDay == 86400
DefaultDelay2 == 3
Kilo == 1000
Mega == 1000000

(* The state of a component that a specification does not exercise *)
LabelIdle ==
    /\ corpus = <<>>
    /\ grain = "hour"
    /\ frequency = "hour"
    /\ delay2 = DefaultDelay2
    /\ labelled = [done |-> FALSE, rows |-> <<>>]

ParseIdle ==
    /\ series = [dtype |-> "object", cells |-> <<>>]
    /\ parsed = [done |-> FALSE, err |-> "none", cells |-> <<>>]

CleanIdle ==
    /\ frame = <<>>
    /\ clean_count = 0
    /\ clean_err = "none"
    /\ frame_once = <<>>

EncodeIdle ==
    /\ train = <<>>
    /\ fitted = [done |-> FALSE]
    /\ applied = [done |-> FALSE]

PredictIdle ==
    /\ FINAL_MODEL = [loaded |-> FALSE]
    /\ calls = <<>>
    /\ model_data = <<>>

ScaleIdle ==
    /\ scaling = [series |-> <<>>, data_max |-> 0, data_min |-> 0]
    /\ scaled = [done |-> FALSE, values |-> <<>>]

CurveIdle ==
    /\ curve = [pc |-> "idle"]

StartIdle ==
    /\ artifacts = <<>>
    /\ loaded = [pc |-> "unloaded"]
    /\ requests = <<>>

LoadIdle ==
    /\ disk = <<>>
    /\ load = [pc |-> "idle"]

KmfIdle ==
    /\ full_df = <<>>
    /\ kmf = [pc |-> "idle"]

ApiIdle ==
    /\ youtube = <<>>

----------------------------------------------------------------------------
(* Generic helpers *)
Range(s) == {s[i] : i \in DOMAIN s}
MinOf(S) == CHOOSE x \in S : \A y \in S : x <= y
MaxOf(S) == CHOOSE x \in S : \A y \in S : x >= y
RemoveAt(s, k) == [i \in 1..(Len(s) - 1) |-> IF i < k THEN s[i] ELSE s[i + 1]]

----------------------------------------------------------------------------
(* DurationLabeler: _create_duration_model_columns *)

VideoIds == {"video1", "video2"}
PublishTicks == 0..1
Frequencies == {"hour", "day"}
Delays2 == {2, DefaultDelay2}

\* pandas.Timedelta(value=1, unit=frequency), in seconds
UnitSeconds(f) == IF f = "hour" THEN SecondsPerHour ELSE SecondsPerDay

\* the instant of tick t of a corpus whose tick is half a unit of g
Instant(g, t) == t * (UnitSeconds(g) \div 2)

\* pandas.Timedelta(value=delay, unit=frequency), in seconds; d2 = 2 * delay
Timedelta(d2, f) == (d2 * UnitSeconds(f)) \div 2

NaT == "NaT"

\* the greatest publish instant instead of the least
start_date_max(data) ==
    IF data = <<>> THEN NaT
    ELSE MaxOf({data[i].videoExactPublishDate : i \in DOMAIN data})
\* start_date = data["videoExactPublishDate"].min()
start_date(data) ==
    IF data = <<>> THEN NaT
    ELSE MinOf({data[i].videoExactPublishDate : i \in DOMAIN data})

\* end_date = data["scanTimeStamp"].max() - Timedelta(delay, frequency)
end_date(data, f, d2) ==
    IF data = <<>> THEN NaT
    ELSE MaxOf({data[i].scanTimeStamp : i \in DOMAIN data}) - Timedelta(d2, f)

group_agg_max(S) == MaxOf(S)
\* the aggregate of one group of df.groupby("videoId")["scanTimeStamp"].min()
group_agg(S) == MinOf(S)

\* first_trending_time: a series indexed by the video ids of the table
first_trending_time(df) ==
    [v \in {df[i].videoId : i \in DOMAIN df} |->
        group_agg({df[i].scanTimeStamp : i \in {j \in DOMAIN df : df[j].videoId = v}})]

\* the keys of the left table in order of first appearance
RECURSIVE KeyOrder(_)
KeyOrder(df) ==
    IF df = <<>> THEN <<>>
    ELSE <<df[1].videoId>> \o
         KeyOrder(SelectSeq(Tail(df), LAMBDA r : r.videoId # df[1].videoId))

RECURSIVE GroupedRows(_, _)
GroupedRows(df, keys) ==
    IF keys = <<>> THEN <<>>
    ELSE SelectSeq(df, LAMBDA r : r.videoId = keys[1]) \o GroupedRows(df, Tail(keys))

\* df.merge(first_trending_time, left_on="videoId", right_index=True): an
\* inner join that keeps the left index.  The row order of the join depends
\* on the pandas release: the left order, or the rows grouped by key.
merge(df, ftt, order) ==
    LET matched == SelectSeq(df, LAMBDA r : r.videoId \in DOMAIN ftt)
        rows == IF order = "left" THEN matched ELSE GroupedRows(matched, KeyOrder(matched))
    IN  [i \in DOMAIN rows |->
            [idx |-> rows[i].idx,
             videoId |-> rows[i].videoId,
             videoExactPublishDate |-> rows[i].videoExactPublishDate,
             scanTimeStamp |-> rows[i].scanTimeStamp,
             firstTrendingTime |-> ftt[rows[i].videoId]]]

total_seconds_clipped(ftt, publish) == IF ftt < publish THEN 0 ELSE ftt - publish
\* (firstTrendingTime - videoExactPublishDate).dt.total_seconds()
total_seconds(ftt, publish) == ftt - publish

\* the comparison with the end of the window turned round
in_window_after_end(ftt, start, end) == ftt >= start /\ ftt >= end
in_window_strict(ftt, start, end) == ftt >= start /\ ftt < end
\* np.logical_and(firstTrendingTime >= start_date, firstTrendingTime <= end_date)
in_window(ftt, start, end) == ftt >= start /\ ftt <= end

RECURSIVE SortByIdx(_)
SortByIdx(rows) ==
    IF rows = <<>> THEN <<>>
    ELSE LET m == MinOf({rows[i].idx : i \in DOMAIN rows})
             k == CHOOSE i \in DOMAIN rows : rows[i].idx = m
         IN  <<rows[k]>> \o SortByIdx(RemoveAt(rows, k))

sort_index_skipped(rows) == rows
\* df.sort_index()
sort_index(rows) == SortByIdx(rows)

create_duration_model_columns(data, f, d2, order) ==
    LET start == start_date(data)
        end == end_date(data, f, d2)
        merged == merge(data, first_trending_time(data), order)
        out == [i \in DOMAIN merged |->
                  [idx |-> merged[i].idx,
                   videoId |-> merged[i].videoId,
                   videoExactPublishDate |-> merged[i].videoExactPublishDate,
                   scanTimeStamp |-> merged[i].scanTimeStamp,
                   firstTrendingTime |-> merged[i].firstTrendingTime,
                   timeToTrendSeconds |-> total_seconds(merged[i].firstTrendingTime,
                                                        merged[i].videoExactPublishDate),
                   isTrend |-> in_window(merged[i].firstTrendingTime, start, end)]]
    IN  sort_index(out)

InitLabel ==
    /\ corpus = <<>>
    /\ grain \in Frequencies
    /\ frequency = "hour"
    /\ delay2 = DefaultDelay2
    /\ labelled = [done |-> FALSE, rows |-> <<>>]
    /\ ParseIdle
    /\ CleanIdle
    /\ EncodeIdle
    /\ PredictIdle
    /\ ScaleIdle
    /\ CurveIdle
    /\ StartIdle
    /\ LoadIdle
    /\ KmfIdle
    /\ ApiIdle

\* one more Observation row is loaded (the index is reset: 0..n-1)
AddObservation ==
    /\ ~labelled.done
    /\ Len(corpus) < MaxRows
    /\ \E v \in VideoIds, p \in PublishTicks, s \in 0..MaxT :
          corpus' = Append(corpus,
              [idx |-> Len(corpus),
               videoId |-> v,
               videoExactPublishDate |-> Instant(grain, p),
               scanTimeStamp |-> Instant(grain, s)])
    /\ UNCHANGED <<grain, frequency, delay2, labelled>>
    /\ UNCHANGED <<parseVars, cleanVars, encodeVars, predictVars, scaleVars, curveVars, startVars, loadVars, kmfVars, apiVars>>

\* _create_duration_model_columns(data, frequency, delay)
Label ==
    /\ ~labelled.done
    /\ \E f \in Frequencies, d2 \in Delays2, order \in {"left", "grouped"} :
          /\ frequency' = f
          /\ delay2' = d2
          /\ labelled' = [done |-> TRUE,
                          rows |-> create_duration_model_columns(corpus, f, d2, order)]
    /\ UNCHANGED <<corpus, grain>>
    /\ UNCHANGED <<parseVars, cleanVars, encodeVars, predictVars, scaleVars, curveVars, startVars, loadVars, kmfVars, apiVars>>

NextLabel == AddObservation \/ Label

SpecLabel == InitLabel /\ [][NextLabel]_vars

----------------------------------------------------------------------------
(* Claims about the DurationLabeler, checked under SpecLabel *)

\* C1: after labelling, a row's isTrend is true exactly when
\* start <= firstTrendingTime <= end, both bounds inclusive, where start is
\* the least publish instant of the corpus and end is the greatest scan
\* instant of the corpus minus delay units of the frequency.
C1_IsTrendIffInWindow ==
    labelled.done =>
        \A i \in DOMAIN labelled.rows :
            LET r == labelled.rows[i] IN
            r.isTrend <=>
                /\ \E c \in Range(corpus) : c.videoExactPublishDate <= r.firstTrendingTime
                /\ \E c \in Range(corpus) :
                      2 * (c.scanTimeStamp - r.firstTrendingTime) >= delay2 * UnitSeconds(frequency)

\* two videos with the same timeToTrendSeconds on either side of end, the
\* earlier one first seen exactly at end and labelled true
C1_Witness ==
    /\ labelled.done
    /\ \E i, j \in DOMAIN labelled.rows :
          LET a == labelled.rows[i]
              b == labelled.rows[j]
          IN  /\ a.videoId # b.videoId
              /\ a.timeToTrendSeconds = b.timeToTrendSeconds
              /\ a.isTrend /\ ~b.isTrend
              /\ a.firstTrendingTime = end_date(corpus, frequency, delay2)

\* C2: the firstTrendingTime written on a row is the least scan instant over
\* the Observation rows of the corpus with that row's video id, and every
\* row of a video id carries the same value.
C2_FirstTrendingIsGroupMin ==
    labelled.done =>
        \A i \in DOMAIN labelled.rows :
            LET r == labelled.rows[i] IN
            /\ \E c \in Range(corpus) :
                  c.videoId = r.videoId /\ c.scanTimeStamp = r.firstTrendingTime
            /\ \A c \in Range(corpus) :
                  c.videoId = r.videoId => r.firstTrendingTime <= c.scanTimeStamp
            /\ \A j \in DOMAIN labelled.rows :
                  labelled.rows[j].videoId = r.videoId
                      => labelled.rows[j].firstTrendingTime = r.firstTrendingTime

\* a video scanned at two different instants: the row of the later scan
\* carries the earlier instant
C2_Witness ==
    /\ labelled.done
    /\ \E i \in DOMAIN labelled.rows :
          labelled.rows[i].firstTrendingTime < labelled.rows[i].scanTimeStamp

----------------------------------------------------------------------------
(* Characters and strings: a string is a sequence of one-character strings *)

Digits == <<"0", "1", "2", "3", "4", "5", "6", "7", "8", "9">>
UpperCase == <<"A", "B", "C", "D", "E", "F", "G", "H", "I", "J", "K", "L", "M",
               "N", "O", "P", "Q", "R", "S", "T", "U", "V", "W", "X", "Y", "Z">>
LowerCase == <<"a", "b", "c", "d", "e", "f", "g", "h", "i", "j", "k", "l", "m",
               "n", "o", "p", "q", "r", "s", "t", "u", "v", "w", "x", "y", "z">>

IsDigit(c) == \E i \in DOMAIN Digits : Digits[i] = c
DigitVal(c) == (CHOOSE i \in DOMAIN Digits : Digits[i] = c) - 1
IsUpper(c) == \E i \in DOMAIN UpperCase : UpperCase[i] = c
IsLower(c) == \E i \in DOMAIN LowerCase : LowerCase[i] = c
lower_char(c) == IF IsUpper(c) THEN LowerCase[CHOOSE i \in DOMAIN UpperCase : UpperCase[i] = c] ELSE c
upper_char(c) == IF IsLower(c) THEN UpperCase[CHOOSE i \in DOMAIN LowerCase : LowerCase[i] = c] ELSE c
\* the regular expression class \s
IsSpace(c) == c \in {" ", "\t", "\n"}

\* str.lower()
str_lower(s) == [i \in DOMAIN s |-> lower_char(s[i])]

RECURSIVE Pow10(_)
Pow10(k) == IF k = 0 THEN 1 ELSE 10 * Pow10(k - 1)

\* the value of a run of decimal digits
RECURSIVE DigitsValue(_)
DigitsValue(ds) ==
    IF ds = <<>> THEN 0
    ELSE 10 * DigitsValue(SubSeq(ds, 1, Len(ds) - 1)) + DigitVal(ds[Len(ds)])

----------------------------------------------------------------------------
(* NumericFieldParser: _parse_numeric_column *)

\* the cells of a column
NA == [tag |-> "NA", v |-> 0, chars |-> <<>>]
StrCell(s) == [tag |-> "str", v |-> 0, chars |-> s]
IntCell(n) == [tag |-> "int", v |-> n, chars |-> <<>>]

\* series.str.replace(r'\s|,', '', regex=True).str.lower(), on one string
normalize(s) == str_lower(SelectSeq(s, LAMBDA c : ~IsSpace(c) /\ c # ","))

\* the end of the run of digits that starts at position i
RunEnd(s, i) == MaxOf({j \in i..Len(s) : \A k \in i..j : IsDigit(s[k])})

\* series.str.extract(r'(\d+(?:\.\d+)?)([KkMm]?)'): the leftmost match, searched
\* anywhere in the string; it starts at the first digit and is greedy
extract(s) ==
    IF \A i \in DOMAIN s : ~IsDigit(s[i])
    THEN [matched |-> FALSE, int |-> <<>>, frac |-> <<>>, suffix |-> ""]
    ELSE LET a == MinOf({i \in DOMAIN s : IsDigit(s[i])})
             b == RunEnd(s, a)
             hasFrac == b + 2 <= Len(s) /\ s[b + 1] = "." /\ IsDigit(s[b + 2])
             e == IF hasFrac THEN RunEnd(s, b + 2) ELSE b
             sfx == IF e + 1 <= Len(s) /\ s[e + 1] \in {"K", "k", "M", "m"} THEN s[e + 1] ELSE ""
         IN  [matched |-> TRUE, int |-> SubSeq(s, a, b),
              frac |-> IF hasFrac THEN SubSeq(s, b + 2, e) ELSE <<>>, suffix |-> sfx]

\* pd.to_numeric(result_df[0], errors='coerce'), as the exact rational n/d
to_numeric(m) ==
    [n |-> DigitsValue(m.int) * Pow10(Len(m.frac)) + DigitsValue(m.frac),
     d |-> Pow10(Len(m.frac))]

\* result_df[1].map({'K': 1e3, 'k': 1e3, 'M': 1e6, 'm': 1e6}).fillna(1)
multiplier(sfx) ==
    IF sfx \in {"K", "k"} THEN Kilo ELSE IF sfx \in {"M", "m"} THEN Mega ELSE 1

\* the float product of one entry, before the cast; nan for a cell that is
\* not a string or has no match
product(cell) ==
    IF cell.tag # "str" THEN [nan |-> TRUE, n |-> 0, d |-> 1]
    ELSE LET m == extract(normalize(cell.chars)) IN
         IF ~m.matched THEN [nan |-> TRUE, n |-> 0, d |-> 1]
         ELSE [nan |-> FALSE, n |-> to_numeric(m).n * multiplier(m.suffix), d |-> to_numeric(m).d]

\* .astype('Int64'): nan becomes <NA>; a value that is not a whole number
\* makes the cast of the whole column raise TypeError
astype_Int64(ps) ==
    IF \E i \in DOMAIN ps : ~ps[i].nan /\ ps[i].n % ps[i].d # 0
    THEN [err |-> "TypeError", cells |-> <<>>]
    ELSE [err |-> "none",
          cells |-> [i \in DOMAIN ps |->
                       IF ps[i].nan THEN NA ELSE IntCell(ps[i].n \div ps[i].d)]]

\* _parse_numeric_column(series); the .str accessor exists on object columns only
parse_numeric_column(col) ==
    IF col.dtype # "object" THEN [err |-> "AttributeError", cells |-> <<>>]
    ELSE astype_Int64([i \in DOMAIN col.cells |-> product(col.cells[i])])

RawStrings ==
    { <<"a", "b", "c">>,    \* "abc"
      <<"4", ".", "5", "K">>,    \* "4.5K"
      <<"1", ".", "2", "M">>,    \* "1.2M"
      <<"8", "0", "0">>,    \* "800"
      <<"1", ",", "2", "3", "4">>,    \* "1,234"
      <<"4", ".", "5">>,    \* "4.5"
      <<" ", "3", " ", "k">>,    \* " 3 k"
      <<"1", "2", "a", "b", "c">>,    \* "12abc"
      <<"1", ".", "2", "5", "k">>,    \* "1.25k"
      <<"1", ".", "2", "3", "4", "5", "K">>,    \* "1.2345K"
      <<"1", ".", "2", "M", " ", "s", "u", "b", "s", "c", "r", "i", "b", "e", "r", "s">>,    \* "1.2M subscribers"
      <<>> }

InitParse ==
    /\ LabelIdle
    /\ ParseIdle
    /\ CleanIdle
    /\ EncodeIdle
    /\ PredictIdle
    /\ ScaleIdle
    /\ CurveIdle
    /\ StartIdle
    /\ LoadIdle
    /\ KmfIdle
    /\ ApiIdle

\* one more raw string in the input column
AppendEntry ==
    /\ ~parsed.done
    /\ Len(series.cells) < MaxSeries
    /\ \E s \in RawStrings :
          series' = [series EXCEPT !.cells = Append(@, StrCell(s))]
    /\ UNCHANGED parsed
    /\ UNCHANGED <<labelVars, cleanVars, encodeVars, predictVars, scaleVars, curveVars, startVars, loadVars, kmfVars, apiVars>>

\* _parse_numeric_column(series)
Parse ==
    /\ ~parsed.done
    /\ LET r == parse_numeric_column(series) IN
          parsed' = [done |-> TRUE, err |-> r.err, cells |-> r.cells]
    /\ UNCHANGED series
    /\ UNCHANGED <<labelVars, cleanVars, encodeVars, predictVars, scaleVars, curveVars, startVars, loadVars, kmfVars, apiVars>>

NextParse == AppendEntry \/ Parse

SpecParse == InitParse /\ [][NextParse]_vars

----------------------------------------------------------------------------
(* Claims about the NumericFieldParser, checked under SpecParse *)

\* the string with whitespace and commas removed
Stripped(s) == SelectSeq(s, LAMBDA c : ~IsSpace(c) /\ c # ",")
AllDigits(s) == s # <<>> /\ \A i \in DOMAIN s : IsDigit(s[i])
\* digits, or digits "." digits
IsNumber(s) ==
    \/ AllDigits(s)
    \/ \E k \in DOMAIN s :
          s[k] = "." /\ AllDigits(SubSeq(s, 1, k - 1)) /\ AllDigits(SubSeq(s, k + 1, Len(s)))
HasSuffix(s) == s # <<>> /\ s[Len(s)] \in {"K", "k", "M", "m"}
NumberPart(s) == IF HasSuffix(s) THEN SubSeq(s, 1, Len(s) - 1) ELSE s
\* the whole string is <number>[K|k|M|m]
IsForm(s) == IsNumber(NumberPart(s))
\* number x 1, x 1000 or x 1000000, as the rational n/d
FormValue(s) ==
    LET num == NumberPart(s)
        k == IF AllDigits(num) THEN Len(num) + 1 ELSE CHOOSE j \in DOMAIN num : num[j] = "."
        whole == SubSeq(num, 1, k - 1)
        frac == SubSeq(num, k + 1, Len(num))
        factor == IF ~HasSuffix(s) THEN 1
                  ELSE IF s[Len(s)] \in {"K", "k"} THEN 1000 ELSE 1000000
    IN  [n |-> (DigitsValue(whole) * Pow10(Len(frac)) + DigitsValue(frac)) * factor,
         d |-> Pow10(Len(frac))]

\* C4: for every string of the form <number>[K|k|M|m] (after removing
\* whitespace and commas) the parser returns number x 1, x 1000 or x 1000000;
\* for every string that is not of that form it returns null.
C4_ParseByForm ==
    parsed.done =>
        /\ parsed.err = "none"
        /\ \A i \in DOMAIN series.cells :
              LET s == Stripped(series.cells[i].chars) IN
              IF IsForm(s)
              THEN /\ parsed.cells[i].tag = "int"
                   /\ parsed.cells[i].v * FormValue(s).d = FormValue(s).n
              ELSE parsed.cells[i] = NA

\* C5: the parser never raises: it returns a column of the same length in
\* which each malformed entry is null and every other entry is the parsed
\* value rounded to the nearest integer.
C5_NeverRaises ==
    parsed.done =>
        /\ parsed.err = "none"
        /\ Len(parsed.cells) = Len(series.cells)
        /\ \A i \in DOMAIN series.cells :
              LET p == product(series.cells[i]) IN
              IF p.nan THEN parsed.cells[i] = NA
              ELSE /\ parsed.cells[i].tag = "int"
                   /\ 2 * (parsed.cells[i].v * p.d - p.n) <= p.d
                   /\ 2 * (p.n - parsed.cells[i].v * p.d) <= p.d

----------------------------------------------------------------------------
(* ColumnNormalizer: _clean_columns *)

\* the column names of the table, as strings
ColumnOrder ==
    <<"videoId",
      "videoExactPublishDate",
      "scanTimeStamp",
      "creatorSubscriberNumber",
      "exactViewNumber",
      "videoLengthSeconds",
      "videoCategory">>
\* the characters of a column name
NameChars(c) ==
    CASE c = "videoId" ->
            <<"v", "i", "d", "e", "o", "I", "d">>
      [] c = "videoExactPublishDate" ->
            <<"v", "i", "d", "e", "o", "E", "x", "a", "c", "t", "P", "u", "b", "l", "i", "s", "h", "D", "a", "t", "e">>
      [] c = "scanTimeStamp" ->
            <<"s", "c", "a", "n", "T", "i", "m", "e", "S", "t", "a", "m", "p">>
      [] c = "creatorSubscriberNumber" ->
            <<"c", "r", "e", "a", "t", "o", "r", "S", "u", "b", "s", "c", "r", "i", "b", "e", "r", "N", "u", "m", "b", "e", "r">>
      [] c = "exactViewNumber" ->
            <<"e", "x", "a", "c", "t", "V", "i", "e", "w", "N", "u", "m", "b", "e", "r">>
      [] c = "videoLengthSeconds" ->
            <<"v", "i", "d", "e", "o", "L", "e", "n", "g", "t", "h", "S", "e", "c", "o", "n", "d", "s">>
      [] c = "videoCategory" ->
            <<"v", "i", "d", "e", "o", "C", "a", "t", "e", "g", "o", "r", "y">>
ColumnNames == Range(ColumnOrder)

Contains(s, pat) ==
    \E i \in 1..(Len(s) - Len(pat) + 1) : SubSeq(s, i, i + Len(pat) - 1) = pat

\* a pattern that also takes the identifier columns
name_is_numeric_or_id(c) ==
    \/ Contains(NameChars(c), <<"n", "u", "m", "b", "e", "r">>)
    \/ Contains(NameChars(c), <<"N", "u", "m", "b", "e", "r">>)
    \/ Contains(NameChars(c), <<"I", "d">>)
\* data.columns.str.contains(r"number|Number", regex=True)
name_is_numeric(c) ==
    \/ Contains(NameChars(c), <<"n", "u", "m", "b", "e", "r">>)
    \/ Contains(NameChars(c), <<"N", "u", "m", "b", "e", "r">>)

TsCell(t) == [tag |-> "ts", v |-> t, chars |-> <<>>]
DatetimeUTC == "datetime64[ns, UTC]"

\* the dtype pandas infers for a raw column
RawDtype(cells) ==
    IF cells # <<>> /\ \A i \in DOMAIN cells : cells[i].tag = "int" THEN "int64" ELSE "object"

\* days between 1970-01-01 and the civil date y-m-d (proleptic Gregorian)
days_from_civil(y, m, d) ==
    LET yy == IF m <= 2 THEN y - 1 ELSE y
        era == yy \div 400
        yoe == yy - era * 400
        mp == IF m > 2 THEN m - 3 ELSE m + 9
        doy == (153 * mp + 2) \div 5 + d - 1
        doe == yoe * 365 + yoe \div 4 - yoe \div 100 + doy
    IN  era * 146097 + doe - 719468

\* the instant, in seconds since the epoch, of "YYYY-MM-DD HH:MM:SS" with an
\* optional "+HH:MM" or "-HH:MM" offset; utc=True reads a naive string as UTC
parse_datetime(s) ==
    LET num(a, b) == DigitsValue(SubSeq(s, a, b))
        wall == days_from_civil(num(1, 4), num(6, 7), num(9, 10)) * SecondsPerDay
                + num(12, 13) * SecondsPerHour + num(15, 16) * 60 + num(18, 19)
        off == IF Len(s) >= 25
               THEN (IF s[20] = "-" THEN -1 ELSE 1)
                    * (num(21, 22) * SecondsPerHour + num(24, 25) * 60)
               ELSE 0
    IN  wall - off

\* pd.to_datetime(column, utc=True) and pd.to_datetime(column, unit="s",
\* utc=True); a column that is already datetime64[ns, UTC] is returned as it is
to_datetime(col, unit) ==
    IF col.dtype = DatetimeUTC THEN col
    ELSE [dtype |-> DatetimeUTC,
          cells |-> [i \in DOMAIN col.cells |->
                       LET c == col.cells[i] IN
                       IF c.tag = "NA" THEN NA
                       ELSE IF unit = "s" THEN TsCell(c.v)
                       ELSE TsCell(parse_datetime(c.chars))]]

\* _clean_columns(data): the table is changed in place, so the datetime
\* columns stay converted when the numeric step raises
clean_columns(data) ==
    LET d1 == [data EXCEPT !.videoExactPublishDate = to_datetime(@, "none")]
        d2 == [d1 EXCEPT !.scanTimeStamp = to_datetime(@, "s")]
        numeric_columns == SelectSeq(ColumnOrder, name_is_numeric)
        results == [k \in DOMAIN numeric_columns |-> parse_numeric_column(d2[numeric_columns[k]])]
        failed == {k \in DOMAIN results : results[k].err # "none"}
    IN  IF failed = {}
        THEN [err |-> "none",
              data |-> [c \in DOMAIN d2 |->
                          IF name_is_numeric(c)
                          THEN [dtype |-> "Int64",
                                cells |-> results[CHOOSE k \in DOMAIN numeric_columns :
                                                      numeric_columns[k] = c].cells]
                          ELSE d2[c]]]
        ELSE [err |-> results[MinOf(failed)].err, data |-> d2]

PublishStrings ==
    { <<"2", "0", "2", "2", "-", "0", "1", "-", "0", "1", " ", "1", "2", ":", "0", "0", ":", "0", "0">>,    \* "2022-01-01 12:00:00"
      <<"2", "0", "2", "2", "-", "0", "2", "-", "0", "1", " ", "1", "6", ":", "3", "0", ":", "0", "0", "+", "0", "1", ":", "0", "0">> }    \* "2022-02-01 16:30:00+01:00"
ScanEpochs == {1641062400, 1643750700}
SubscriberCells ==
    { StrCell(<<"8", "0", "0">>), StrCell(<<"1", ".", "8", "M">>), StrCell(<<"a", "b", "c">>), StrCell(<<"4", ".", "5">>) }
ViewCells == { IntCell(1000), StrCell(<<"2", ".", "2", "M">>) }

EmptyFrame == [c \in ColumnNames |-> [dtype |-> "object", cells |-> <<>>]]
NumRows(data) == Len(data["videoId"].cells)

with_cell(col, cell) ==
    [dtype |-> RawDtype(Append(col.cells, cell)), cells |-> Append(col.cells, cell)]

InitClean ==
    /\ LabelIdle
    /\ ParseIdle
    /\ frame = EmptyFrame
    /\ clean_count = 0
    /\ clean_err = "none"
    /\ frame_once = <<>>
    /\ EncodeIdle
    /\ PredictIdle
    /\ ScaleIdle
    /\ CurveIdle
    /\ StartIdle
    /\ LoadIdle
    /\ KmfIdle
    /\ ApiIdle

\* one more raw row in the table
AddRawRow ==
    /\ clean_count = 0
    /\ NumRows(frame) < MaxFrameRows
    /\ \E p \in PublishStrings, t \in ScanEpochs, sub \in SubscriberCells, vw \in ViewCells :
          frame' = [c \in ColumnNames |->
                      with_cell(frame[c],
                          CASE c = "videoId" -> StrCell(<<"v", "1">>)
                            [] c = "videoExactPublishDate" -> StrCell(p)
                            [] c = "scanTimeStamp" -> IntCell(t)
                            [] c = "creatorSubscriberNumber" -> sub
                            [] c = "exactViewNumber" -> vw
                            [] c = "videoLengthSeconds" -> IntCell(60)
                            [] OTHER -> StrCell(<<"M", "u", "s", "i", "c">>))]
    /\ UNCHANGED <<clean_count, clean_err, frame_once>>
    /\ UNCHANGED <<labelVars, parseVars, encodeVars, predictVars, scaleVars, curveVars, startVars, loadVars, kmfVars, apiVars>>

\* _clean_columns(data), on the raw table and again on the table it returned
Clean ==
    /\ clean_count < 2
    /\ clean_err = "none"
    /\ LET r == clean_columns(frame) IN
          /\ frame' = r.data
          /\ clean_err' = r.err
          /\ frame_once' = IF clean_count = 0 THEN r.data ELSE frame_once
    /\ clean_count' = clean_count + 1
    /\ UNCHANGED <<labelVars, parseVars, encodeVars, predictVars, scaleVars, curveVars, startVars, loadVars, kmfVars, apiVars>>

NextClean == AddRawRow \/ Clean

SpecClean == InitClean /\ [][NextClean]_vars

----------------------------------------------------------------------------
(* Claims about the ColumnNormalizer, checked under SpecClean *)

\* C6: _clean_columns is idempotent: applied to a table it has already
\* normalized it neither raises nor changes any value.
C6_CleanIdempotent ==
    (clean_count = 2 /\ NumRows(frame_once) > 0) => (clean_err = "none" /\ frame = frame_once)

\* the columns the claim names: those of a count, by their name, and the two
\* instants
CountColumns == {"creatorSubscriberNumber", "exactViewNumber"}
InstantColumns == {"videoExactPublishDate", "scanTimeStamp"}

\* C25: a call of _clean_columns parses exactly the columns whose name
\* contains "number" or "Number" and converts exactly the two instant
\* columns: every other column is left as it was, and every column keeps its
\* number of rows.
C25_CleanFrame ==
    [][clean_count' = clean_count + 1 =>
          /\ \A c \in ColumnNames \ (CountColumns \cup InstantColumns) :
                frame'[c] = frame[c]
          /\ \A c \in ColumnNames : Len(frame'[c].cells) = Len(frame[c].cells)
          /\ clean_err' = "none" =>
                /\ \A c \in CountColumns :
                      frame'[c] = [dtype |-> "Int64",
                                   cells |-> parse_numeric_column(frame[c]).cells]
                /\ \A c \in InstantColumns : frame'[c].dtype = DatetimeUTC]_vars

\* a raw table of two rows cleaned once without an error
C25_Witness ==
    /\ clean_count = 1 /\ clean_err = "none"
    /\ NumRows(frame) = 2
    /\ frame["creatorSubscriberNumber"].dtype = "Int64"
    /\ frame["videoExactPublishDate"].dtype = DatetimeUTC
    /\ frame["videoId"].dtype = "object"
    /\ frame["videoLengthSeconds"].cells[2] = IntCell(60)

\* C18: every row has timeToTrendSeconds = firstTrendingTime minus the
\* publish instant of that row, in seconds; when the first-trending instant
\* precedes the publish instant the value is negative, the call still
\* returns the row, and isTrend is decided by the same window comparison.
C18_TimeToTrendMayBeNegative ==
    labelled.done =>
        /\ Len(labelled.rows) = Len(corpus)
        /\ \A i \in DOMAIN labelled.rows :
              LET r == labelled.rows[i] IN
              /\ r.timeToTrendSeconds = r.firstTrendingTime - r.videoExactPublishDate
              /\ r.firstTrendingTime < r.videoExactPublishDate =>
                    /\ r.timeToTrendSeconds < 0
                    /\ r.isTrend <=>
                          /\ r.firstTrendingTime >= start_date(corpus)
                          /\ r.firstTrendingTime <= end_date(corpus, frequency, delay2)

\* a video first seen before its own publish instant and labelled as
\* trending, next to a video seen after its publish instant
C18_Witness ==
    /\ labelled.done
    /\ \E i, j \in DOMAIN labelled.rows :
          /\ labelled.rows[i].timeToTrendSeconds < 0 /\ labelled.rows[i].isTrend
          /\ labelled.rows[j].timeToTrendSeconds > 0

\* no video of the corpus is scanned before it is published
PublishedBeforeScanned ==
    \A i \in DOMAIN corpus : corpus[i].videoExactPublishDate <= corpus[i].scanTimeStamp

\* C26: when every Observation row has its publish instant at or before its
\* scan instant, the lower bound of the window never decides: a row is
\* labelled true exactly when its firstTrendingTime is at most the greatest
\* scan instant minus the delay.
C26_LowerBoundNeverDecides ==
    (labelled.done /\ PublishedBeforeScanned) =>
        \A i \in DOMAIN labelled.rows :
            LET r == labelled.rows[i] IN
            r.isTrend <=>
                \E c \in Range(corpus) :
                    2 * (c.scanTimeStamp - r.firstTrendingTime) >= delay2 * UnitSeconds(frequency)

\* a video first seen before another one is published: the first is inside
\* the window, the other is not
C26_Witness ==
    /\ labelled.done /\ PublishedBeforeScanned
    /\ \E i, j \in DOMAIN labelled.rows :
          /\ labelled.rows[i].isTrend /\ ~labelled.rows[j].isTrend
          /\ labelled.rows[i].firstTrendingTime < labelled.rows[j].videoExactPublishDate

\* the delays the labelling is compared under, in halves of a unit
ComparedDelays2 == 0..(DefaultDelay2 + 1)

\* C27: for the same corpus and frequency, a row labelled true under a delay
\* is labelled true under every delay that is not greater, and its
\* firstTrendingTime and timeToTrendSeconds are the same under every delay.
C27_MonotoneInDelay ==
    labelled.done =>
        \A d \in ComparedDelays2, order \in {"left", "grouped"} :
            LET other == create_duration_model_columns(corpus, frequency, d, order)
            IN  \A i \in DOMAIN labelled.rows :
                   /\ other[i].firstTrendingTime = labelled.rows[i].firstTrendingTime
                   /\ other[i].timeToTrendSeconds = labelled.rows[i].timeToTrendSeconds
                   /\ (d <= delay2 /\ labelled.rows[i].isTrend) => other[i].isTrend
                   /\ (d >= delay2 /\ other[i].isTrend) => labelled.rows[i].isTrend

\* a row that is outside the window of the labelling and inside the window
\* of a smaller delay
C27_Witness ==
    /\ labelled.done
    /\ \E d \in ComparedDelays2, i \in DOMAIN labelled.rows :
          /\ d < delay2
          /\ ~labelled.rows[i].isTrend
          /\ create_duration_model_columns(corpus, frequency, d, "left")[i].isTrend
    /\ \E j \in DOMAIN labelled.rows : labelled.rows[j].isTrend

----------------------------------------------------------------------------
(* processing_for_duration_model: the loaded and cleaned table is labelled *)

\* processing_for_duration_model(folder, pattern, ..., frequency): the corpus
\* is the table that _load_data and _clean_columns give; the last statement
\* is _create_duration_model_columns(cleaned_data, frequency), the delay left
\* to its default
processing_for_duration_model ==
    /\ ~labelled.done
    /\ \E f \in Frequencies, order \in {"left", "grouped"} :
          /\ frequency' = f
          /\ delay2' = DefaultDelay2
          /\ labelled' = [done |-> TRUE,
                          rows |-> create_duration_model_columns(corpus, f, DefaultDelay2, order)]
    /\ UNCHANGED <<corpus, grain>>
    /\ UNCHANGED <<parseVars, cleanVars, encodeVars, predictVars, scaleVars, curveVars, startVars, loadVars, kmfVars, apiVars>>

NextProcess == AddObservation \/ processing_for_duration_model

SpecProcess == InitLabel /\ [][NextProcess]_vars

\* C23: processing_for_duration_model with frequency "hour" takes the
\* greatest scan instant minus 1 hour as the end of the window, and with
\* frequency "day" the greatest scan instant minus 1 day: a row is labelled
\* true exactly when its firstTrendingTime lies between the least publish
\* instant and that end.
C23_WindowEndIsOneUnitBack ==
    labelled.done =>
        \A i \in DOMAIN labelled.rows :
            LET r == labelled.rows[i] IN
            r.isTrend <=>
                /\ \E c \in Range(corpus) : c.videoExactPublishDate <= r.firstTrendingTime
                /\ \E c \in Range(corpus) :
                      c.scanTimeStamp - r.firstTrendingTime >= UnitSeconds(frequency)

----------------------------------------------------------------------------
(* Exact arithmetic on quotients *)

\* exact rationals in lowest terms, the denominator positive; a denominator
\* of 0 stands for the result of a division by zero (inf, -inf or nan by
\* the sign of the numerator)
RECURSIVE GCD(_, _)
GCD(a, b) == IF b = 0 THEN a ELSE GCD(b, a % b)
Abs(x) == IF x < 0 THEN -x ELSE x
Sign(x) == IF x < 0 THEN -1 ELSE IF x = 0 THEN 0 ELSE 1
Rat(n, d) ==
    IF d = 0 THEN [n |-> Sign(n), d |-> 0]
    ELSE LET g == GCD(Abs(n), Abs(d))
         IN  [n |-> (Sign(d) * n) \div g, d |-> Abs(d) \div g]
RatDiv(a, b) == Rat(a.n * b.d, a.d * b.n)
RatNeg(a) == [n |-> -a.n, d |-> a.d]
RECURSIVE RatPow(_, _)
RatPow(a, k) ==
    IF k = 0 THEN Rat(1, 1)
    ELSE LET r == RatPow(a, k - 1) IN Rat(a.n * r.n, a.d * r.d)

----------------------------------------------------------------------------
(* FeatureEncoder: preprocessing_on_loading *)

\* the characters of the model in code point order
CodeOrder ==
    <<" ", "&", ",", ".">> \o Digits \o UpperCase \o <<"_">> \o LowerCase
Ord(c) == CHOOSE i \in DOMAIN CodeOrder : CodeOrder[i] = c

\* a < b for strings, as Python and numpy compare them
RECURSIVE StrLess(_, _)
StrLess(a, b) ==
    IF b = <<>> THEN FALSE
    ELSE IF a = <<>> THEN TRUE
    ELSE IF a[1] # b[1] THEN Ord(a[1]) < Ord(b[1])
    ELSE StrLess(Tail(a), Tail(b))

\* np.unique: the sorted distinct values
RECURSIVE SortedUnique(_)
SortedUnique(S) ==
    IF S = {} THEN <<>>
    ELSE LET m == CHOOSE x \in S : \A y \in S \ {x} : StrLess(x, y)
         IN  <<m>> \o SortedUnique(S \ {m})

StartsWith(s, pre) == Len(s) >= Len(pre) /\ SubSeq(s, 1, Len(pre)) = pre

\* str.replace(old, new): every non-overlapping occurrence, left to right
RECURSIVE str_replace(_, _, _)
str_replace(s, old, new) ==
    IF s = <<>> THEN <<>>
    ELSE IF StartsWith(s, old) THEN new \o str_replace(SubSeq(s, Len(old) + 1, Len(s)), old, new)
    ELSE <<s[1]>> \o str_replace(Tail(s), old, new)

\* str.strip()
str_strip(s) ==
    IF \A i \in DOMAIN s : IsSpace(s[i]) THEN <<>>
    ELSE SubSeq(s, MinOf({i \in DOMAIN s : ~IsSpace(s[i])}),
                   MaxOf({i \in DOMAIN s : ~IsSpace(s[i])}))

\* str.capitalize(): the first character upper case, the rest lower case
str_capitalize(s) ==
    [i \in DOMAIN s |-> IF i = 1 THEN upper_char(s[i]) ELSE lower_char(s[i])]

VideoCatPrefix == <<"v", "i", "d", "e", "o", "C", "a", "t", "_">>

\* 'videoCat_' + cat.replace(" & ", "_and_").strip().capitalize()
column_name(cat) ==
    VideoCatPrefix \o
    str_capitalize(str_strip(str_replace(cat, <<" ", "&", " ">>, <<"_", "a", "n", "d", "_">>)))

DayNames == <<"Monday", "Tuesday", "Wednesday", "Thursday", "Friday", "Saturday", "Sunday">>
\* Series.dt.day_name() of an instant in seconds since the epoch (a Thursday)
day_name(t) == DayNames[((t \div SecondsPerDay + 3) % 7) + 1]

OneHotEncoder_error == [handle_unknown |-> "error", categories_ |-> <<>>]
\* OneHotEncoder(sparse=False, handle_unknown='ignore')
OneHotEncoder == [handle_unknown |-> "ignore", categories_ |-> <<>>]

\* encoder.fit: the vocabulary is the sorted distinct categories of the table
encoder_fit(enc, df) ==
    [enc EXCEPT !.categories_ = SortedUnique({df[i].videoCategory : i \in DOMAIN df})]

\* encoder.transform of one category: a row with one cell per vocabulary entry
encoder_transform(enc, cat) ==
    IF cat \notin Range(enc.categories_) /\ enc.handle_unknown = "error"
    THEN [err |-> "ValueError", row |-> <<>>]
    ELSE [err |-> "none",
          row |-> [i \in DOMAIN enc.categories_ |-> IF enc.categories_[i] = cat THEN 1 ELSE 0]]

\* the names given to the one-hot columns, in vocabulary order
one_hot_names(enc) == [i \in DOMAIN enc.categories_ |-> column_name(enc.categories_[i])]

\* df[keys] of a row of named cells: for each key in turn, every column of
\* that name
RECURSIVE select_columns(_, _)
select_columns(cols, keys) ==
    IF keys = <<>> THEN <<>>
    ELSE SelectSeq(cols, LAMBDA c : c.name = keys[1]) \o select_columns(cols, Tail(keys))

Raise_default(kind, message) ==
    [err |-> "none", msg |-> "", df |-> <<>>, features |-> <<>>, encoder |-> OneHotEncoder]
\* raise kind(message): nothing is returned
Raise(kind, message) ==
    [err |-> kind, msg |-> message, df |-> <<>>, features |-> <<>>, encoder |-> OneHotEncoder]

\* the on_loading branch: one record is encoded with the given encoder
apply_mode(dataframe, video_cat_enc) ==
    IF ~video_cat_enc.given THEN Raise("AttributeError", "NoneType has no attribute transform")
    ELSE LET enc == video_cat_enc.enc
             names == one_hot_names(enc)
             rows == [i \in DOMAIN dataframe |-> encoder_transform(enc, dataframe[i].videoCategory)]
             prediction_features ==
                 <<NameChars("videoExactPublishDate"), NameChars("videoLengthSeconds"),
                   NameChars("creatorSubscriberNumber")>> \o names
             full(i) ==
                 <<[name |-> NameChars("videoExactPublishDate"), value |-> dataframe[i].videoExactPublishDate],
                   [name |-> NameChars("videoLengthSeconds"), value |-> dataframe[i].videoLengthSeconds],
                   [name |-> NameChars("creatorSubscriberNumber"), value |-> dataframe[i].creatorSubscriberNumber]>>
                 \o [k \in DOMAIN names |-> [name |-> names[k], value |-> rows[i].row[k]]]
         IN  IF \E i \in DOMAIN rows : rows[i].err # "none"
             THEN Raise("ValueError", "Found unknown categories")
             ELSE [err |-> "none", msg |-> "",
                   df |-> [i \in DOMAIN dataframe |-> select_columns(full(i), prediction_features)],
                   features |-> prediction_features,
                   encoder |-> OneHotEncoder]

\* the rest of the function: the training table is augmented and the
\* encoder is fitted
fit_mode(df) ==
    IF df = <<>> THEN Raise("ValueError", "Found array with 0 sample(s)")
    ELSE LET encoder == encoder_fit(OneHotEncoder, df)
             categories == one_hot_names(encoder)
             out == [i \in DOMAIN df |->
                       [videoCategory |-> df[i].videoCategory,
                        videoExactPublishDate |-> df[i].videoExactPublishDate,
                        creatorSubscriberNumber |-> df[i].creatorSubscriberNumber,
                        videoLengthSeconds |-> df[i].videoLengthSeconds,
                        timeToTrendSeconds |-> df[i].timeToTrendSeconds,
                        isTrend |-> IF df[i].isTrend THEN 1 ELSE 0,
                        timeToTrendDays |-> [n |-> df[i].timeToTrendSeconds, d |-> SecondsPerDay],
                        videoLengthDays |-> [n |-> df[i].videoLengthSeconds, d |-> SecondsPerDay],
                        dayOfWeek |-> day_name(df[i].videoExactPublishDate),
                        one_hot |-> [k \in DOMAIN categories |->
                                       [name |-> categories[k],
                                        value |-> encoder_transform(encoder, df[i].videoCategory).row[k]]]]]
         IN  [err |-> "none", msg |-> "", df |-> out,
              features |-> <<<<"t", "i", "m", "e", "T", "o", "T", "r", "e", "n", "d", "D", "a", "y", "s">>, <<"i", "s", "T", "r", "e", "n", "d">>, NameChars("creatorSubscriberNumber"), NameChars("videoLengthSeconds")>>
                           \o SelectSeq(categories, LAMBDA c : StartsWith(c, VideoCatPrefix)),
              encoder |-> encoder]

\* Series.astype(int) of a quotient: the fractional part is dropped, toward 0
astype_int(q) ==
    IF q.n >= 0 THEN [n |-> q.n \div q.d, d |-> 1]
    ELSE [n |-> -((-q.n) \div q.d), d |-> 1]

\* the rest of `preprocessing`, the revision of the function kept in
\* duration_model/utils.py and in YouTrend/duration_model/make_prediction.py:
\* the same statements as above, except that timeToTrendDays is
\* (timeToTrendSeconds / 86400).astype(int) and that no videoLengthDays is made
preprocessing_fit_mode(df) ==
    LET r == fit_mode(df)
    IN  IF r.err # "none" THEN r
        ELSE [r EXCEPT !.df =
                 [i \in DOMAIN r.df |->
                    [f \in DOMAIN r.df[i] \ {"videoLengthDays"} |->
                       IF f = "timeToTrendDays"
                       THEN astype_int([n |-> df[i].timeToTrendSeconds, d |-> SecondsPerDay])
                       ELSE r.df[i][f]]]]

Files == {"train.csv"}

\* preprocessing_on_loading(filename, dataframe, on_loading, video_cat_enc);
\* csv is the content of the file when it exists
preprocessing_on_loading(filename, dataframe, on_loading, video_cat_enc, csv) ==
    IF filename = "None" /\ ~dataframe.given
    THEN Raise("ValueError", "Either a filename or a DataFrame must be provided.")
    ELSE IF filename # "None" /\ dataframe.given
    THEN Raise("ValueError", "Only one of filename or DataFrame should be provided.")
    ELSE IF filename # "None"
    THEN IF filename \notin Files
         THEN Raise("ValueError", "File does not exist.")
         ELSE fit_mode(csv)
    ELSE IF dataframe.rows = <<>>
    THEN Raise("ValueError", "Provided DataFrame is empty.")
    ELSE IF on_loading THEN apply_mode(dataframe.rows, video_cat_enc)
    ELSE fit_mode(dataframe.rows)

\* preprocessing(filename, dataframe, on_loading, video_cat_enc) of the other
\* revision; csv is the content of the file when it exists
preprocessing(filename, dataframe, on_loading, video_cat_enc, csv) ==
    IF filename = "None" /\ ~dataframe.given
    THEN Raise("ValueError", "Either a filename or a DataFrame must be provided.")
    ELSE IF filename # "None" /\ dataframe.given
    THEN Raise("ValueError", "Only one of filename or DataFrame should be provided.")
    ELSE IF filename # "None"
    THEN IF filename \notin Files
         THEN Raise("ValueError", "File does not exist.")
         ELSE preprocessing_fit_mode(csv)
    ELSE IF dataframe.rows = <<>>
    THEN Raise("ValueError", "Provided DataFrame is empty.")
    ELSE IF on_loading THEN apply_mode(dataframe.rows, video_cat_enc)
    ELSE preprocessing_fit_mode(dataframe.rows)

\* the revisions of the function in the repository
Revisions == {"preprocessing_on_loading", "preprocessing"}
revision_call(revision, filename, dataframe, on_loading, video_cat_enc, csv) ==
    IF revision = "preprocessing"
    THEN preprocessing(filename, dataframe, on_loading, video_cat_enc, csv)
    ELSE preprocessing_on_loading(filename, dataframe, on_loading, video_cat_enc, csv)

CategoryLabels ==
    { <<"M", "u", "s", "i", "c">>,    \* "Music"
      <<"m", "u", "s", "i", "c">>,    \* "music"
      <<"C", "o", "m", "e", "d", "y">>,    \* "Comedy"
      <<"F", "i", "l", "m", " ", "&", " ", "A", "n", "i", "m", "a", "t", "i", "o", "n">> }    \* "Film & Animation"
\* the labels of the training rows: one row that trended, after half a day,
\* and one that did not, after 28 hours
TrendLabels ==
    {[timeToTrendSeconds |-> 43200, isTrend |-> TRUE],
     [timeToTrendSeconds |-> 100800, isTrend |-> FALSE]}
NoEncoder == [given |-> FALSE, enc |-> OneHotEncoder]

InitEncode ==
    /\ LabelIdle
    /\ ParseIdle
    /\ CleanIdle
    /\ EncodeIdle
    /\ PredictIdle
    /\ ScaleIdle
    /\ CurveIdle
    /\ StartIdle
    /\ LoadIdle
    /\ KmfIdle
    /\ ApiIdle

\* one more labelled row in the training table
AddTrainingRow ==
    /\ ~fitted.done
    /\ Len(train) < MaxTrain
    /\ \E cat \in CategoryLabels, label \in TrendLabels :
          train' = Append(train,
              [videoCategory |-> cat,
               videoExactPublishDate |-> 1641038400,
               creatorSubscriberNumber |-> 800,
               videoLengthSeconds |-> 60,
               timeToTrendSeconds |-> label.timeToTrendSeconds,
               isTrend |-> label.isTrend])
    /\ UNCHANGED <<fitted, applied>>
    /\ UNCHANGED <<labelVars, parseVars, cleanVars, predictVars, scaleVars, curveVars, startVars, loadVars, kmfVars, apiVars>>

\* one revision of the function in fit mode, from a file or from a table
Fit ==
    /\ ~fitted.done
    /\ \E revision \in Revisions, filename \in {"None", "missing.csv", "train.csv"},
          given \in BOOLEAN :
          LET r == revision_call(revision, filename, [given |-> given, rows |-> train],
                                 FALSE, NoEncoder, train)
          IN  fitted' = [done |-> TRUE, revision |-> revision,
                         filename |-> filename, given |-> given,
                         err |-> r.err, msg |-> r.msg, df |-> r.df,
                         features |-> r.features, encoder |-> r.encoder]
    /\ UNCHANGED <<train, applied>>
    /\ UNCHANGED <<labelVars, parseVars, cleanVars, predictVars, scaleVars, curveVars, startVars, loadVars, kmfVars, apiVars>>

\* preprocessing_on_loading(dataframe=df, on_loading=True, video_cat_enc=...)
\* on the record of one video
Apply ==
    /\ fitted.done /\ fitted.err = "none"
    /\ \E cat \in CategoryLabels, withEnc \in BOOLEAN :
          LET record == <<[videoCategory |-> cat,
                           videoExactPublishDate |-> 1641038400,
                           creatorSubscriberNumber |-> 800,
                           videoLengthSeconds |-> 60]>>
              enc == IF withEnc THEN [given |-> TRUE, enc |-> fitted.encoder] ELSE NoEncoder
              r == preprocessing_on_loading("None", [given |-> TRUE, rows |-> record], TRUE, enc, train)
          IN  applied' = [done |-> TRUE, category |-> cat, withEnc |-> withEnc,
                          err |-> r.err, msg |-> r.msg, df |-> r.df, features |-> r.features]
    /\ UNCHANGED <<train, fitted>>
    /\ UNCHANGED <<labelVars, parseVars, cleanVars, predictVars, scaleVars, curveVars, startVars, loadVars, kmfVars, apiVars>>

NextEncode == AddTrainingRow \/ Fit \/ Apply

SpecEncode == InitEncode /\ [][NextEncode]_vars

\* the one-hot cells of an encoded record: the columns named videoCat_...
one_hot_cells(row) == SelectSeq(row, LAMBDA c : StartsWith(c.name, VideoCatPrefix))

\* the record of the last Apply was encoded with the encoder of the last Fit
AppliedWithFitted == applied.done /\ applied.withEnc
Vocabulary == Range(fitted.encoder.categories_)

\* C7: in apply mode with the encoder learned at fit time, a record whose
\* category is not in the learned vocabulary is encoded without an error and
\* every one-hot column of the output is 0.
C7_UnseenCategoryAllZero ==
    (AppliedWithFitted /\ applied.category \notin Vocabulary) =>
        /\ applied.err = "none"
        /\ \A i \in DOMAIN applied.df :
              \A k \in DOMAIN one_hot_cells(applied.df[i]) :
                 one_hot_cells(applied.df[i])[k].value = 0

C7_Witness ==
    /\ AppliedWithFitted
    /\ applied.category \notin Vocabulary
    /\ applied.err = "none"
    /\ Len(applied.df) = 1
    /\ Len(one_hot_cells(applied.df[1])) = 2

\* C8: in apply mode with the encoder learned at fit time, a record whose
\* category is in the learned vocabulary gets exactly one one-hot column
\* equal to 1, the column named for its category, and 0 in every other one.
C8_RoundTripOneHot ==
    (AppliedWithFitted /\ applied.category \in Vocabulary) =>
        /\ applied.err = "none"
        /\ \A i \in DOMAIN applied.df :
              LET cells == one_hot_cells(applied.df[i])
              IN  /\ Cardinality({k \in DOMAIN cells : cells[k].value = 1}) = 1
                  /\ \A k \in DOMAIN cells :
                        cells[k].value =
                            IF cells[k].name = column_name(applied.category) THEN 1 ELSE 0

\* C28: distinct entries of the learned vocabulary get distinct column
\* names, so the one-hot block of a fitted table and of an encoded record
\* has as many distinctly named columns as the vocabulary has entries.
C28_ColumnNamesInjective ==
    (fitted.done /\ fitted.err = "none") =>
        LET cats == fitted.encoder.categories_
        IN  /\ \A i, j \in DOMAIN cats :
                  i # j => column_name(cats[i]) # column_name(cats[j])
            /\ \A i \in DOMAIN fitted.df :
                  Cardinality({fitted.df[i].one_hot[k].name :
                                  k \in DOMAIN fitted.df[i].one_hot}) = Len(cats)
            /\ (AppliedWithFitted /\ applied.err = "none") =>
                  \A i \in DOMAIN applied.df :
                      LET cells == one_hot_cells(applied.df[i])
                      IN  Cardinality({cells[k].name : k \in DOMAIN cells}) = Len(cats)

\* the input violation of a fit-mode call, if any
ViolationClass(filename, given, rows) ==
    IF filename = "None" /\ ~given THEN "neither"
    ELSE IF filename # "None" /\ given THEN "both"
    ELSE IF filename # "None" /\ filename \notin Files THEN "missing file"
    ELSE IF given /\ rows = <<>> THEN "empty table"
    ELSE "none"

\* the error kind the specification gives each violation
ErrorKindOf(class) ==
    IF class \in {"neither", "both"} THEN "InputError"
    ELSE IF class = "empty table" THEN "EmptyInputError"
    ELSE "MissingFileError"

\* C14: a call with neither input, with both inputs, with a table of zero
\* rows or with a path that does not exist raises and returns no table and
\* no encoder; with both inputs the both-supplied error is raised whether
\* the path exists or not.
C14_InputValidationFailsFast ==
    (fitted.done /\ ViolationClass(fitted.filename, fitted.given, train) # "none") =>
        /\ fitted.err # "none"
        /\ fitted.df = <<>>
        /\ fitted.encoder.categories_ = <<>>
        /\ ViolationClass(fitted.filename, fitted.given, train) = "both" =>
              fitted.msg = "Only one of filename or DataFrame should be provided."

\* both inputs are given, the path does not exist and the table has rows
C14_Witness ==
    /\ fitted.done
    /\ fitted.filename = "missing.csv" /\ fitted.given /\ train # <<>>
    /\ fitted.err = "ValueError"
    /\ fitted.msg = "Only one of filename or DataFrame should be provided."

\* C15: the kind of the error tells the violations apart: a call that fails
\* on one kind of violation raises an error kind that no call failing on
\* another kind of violation raises.
C15_DistinctErrorKinds ==
    (fitted.done /\ ViolationClass(fitted.filename, fitted.given, train) # "none") =>
        \A filename \in {"None", "missing.csv", "train.csv"}, given \in BOOLEAN,
           rows \in {train, <<>>} :
            LET mine == ViolationClass(fitted.filename, fitted.given, train)
                other == ViolationClass(filename, given, rows)
            IN  (other # "none" /\ ErrorKindOf(other) # ErrorKindOf(mine)) =>
                    preprocessing_on_loading(filename, [given |-> given, rows |-> rows],
                                             FALSE, NoEncoder, rows).err # fitted.err

\* the quotient seconds / 86400, exactly
days_of(seconds) == Rat(seconds, SecondsPerDay)

\* C19: after a fit, every day-duration field of the table is the seconds
\* field divided by 86400 without truncation (timeToTrendDays * 86400 =
\* timeToTrendSeconds, videoLengthDays * 86400 = videoLengthSeconds), and the
\* revisions of the function give the same timeToTrendDays on the same input.
C19_DaysAreSecondsOver86400 ==
    (fitted.done /\ fitted.err = "none") =>
        \A i \in DOMAIN fitted.df :
            LET row == fitted.df[i]
            IN  /\ Rat(row.timeToTrendDays.n, row.timeToTrendDays.d)
                      = days_of(row.timeToTrendSeconds)
                /\ "videoLengthDays" \in DOMAIN row
                /\ Rat(row.videoLengthDays.n, row.videoLengthDays.d)
                      = days_of(row.videoLengthSeconds)
                /\ \A revision \in Revisions :
                      LET other == revision_call(revision, fitted.filename,
                                       [given |-> fitted.given, rows |-> train],
                                       FALSE, NoEncoder, train).df[i].timeToTrendDays
                      IN  Rat(other.n, other.d)
                            = Rat(row.timeToTrendDays.n, row.timeToTrendDays.d)

----------------------------------------------------------------------------
(* SurvivalPredictor: survival_probability *)

TimeToTrendDays == <<"t", "i", "m", "e", "T", "o", "T", "r", "e", "n", "d", "D", "a", "y", "s">>
HalfDay == SecondsPerDay \div 2

\* the videos of the platform, by link: what the YouTube API answers
Links == {"link1", "link2"}
VideoRecords ==
    [video_link \in Links |->
        IF video_link = "link1"
        THEN [videoCategory |-> <<"M", "u", "s", "i", "c">>,
              videoExactPublishDate |-> HalfDay,
              creatorSubscriberNumber |-> 800,
              videoLengthSeconds |-> 60]
        ELSE [videoCategory |-> <<"F", "i", "l", "m", " ", "&", " ", "A", "n", "i", "m", "a", "t", "i", "o", "n">>,
              videoExactPublishDate |-> 2 * HalfDay,
              creatorSubscriberNumber |-> 100,
              videoLengthSeconds |-> 90]]

\* youtube.videos().list(part='snippet,statistics,contentDetails', id=video_id)
\* and get_channel_subscriber_count: the record as the platform holds it at
\* the time of the request
video_info(video_link) == youtube[video_link]

\* the training table that preprocessing returns when the module is loaded
TrainingSample ==
    <<[creatorSubscriberNumber |-> 100, videoLengthSeconds |-> 30],
      [creatorSubscriberNumber |-> 900, videoLengthSeconds |-> 90]>>
data_max(column) == MaxOf({model_data[i][column] : i \in DOMAIN model_data})
data_min(column) == MinOf({model_data[i][column] : i \in DOMAIN model_data})

\* the encoder unpickled with the module
VIDEO_CAT_ENCODER ==
    [given |-> TRUE,
     enc |-> encoder_fit(OneHotEncoder,
                 <<[videoCategory |-> <<"C", "o", "m", "e", "d", "y">>],
                   [videoCategory |-> <<"M", "u", "s", "i", "c">>]>>)]

\* get_video_details: the record of the video encoded in apply mode, or
\* None when the API answers with an HttpError
get_video_details(video_link, video_cat_enc, http_ok) ==
    IF ~http_ok THEN [err |-> "none", is_none |-> TRUE, df |-> <<>>]
    ELSE LET r == preprocessing_on_loading(
                      "None", [given |-> TRUE, rows |-> <<video_info(video_link)>>],
                      TRUE, video_cat_enc, <<>>)
         IN  IF r.err # "none" THEN [err |-> r.err, is_none |-> FALSE, df |-> <<>>]
             ELSE [err |-> "none", is_none |-> FALSE, df |-> r.df[1]]

\* row[name] and row[name] = value on a row of named cells
get_cell(row, name) == CHOOSE k \in DOMAIN row : row[k].name = name
set_cell(row, name, value) ==
    IF \E k \in DOMAIN row : row[k].name = name
    THEN [k \in DOMAIN row |->
             IF row[k].name = name THEN [name |-> name, value |-> value] ELSE row[k]]
    ELSE Append(row, [name |-> name, value |-> value])
cell_value(row, name) == row[get_cell(row, name)].value

normalize_clamped(values, dmax, dmin) ==
    LET q == Rat(values - dmin, dmax - dmin)
    IN  IF q.n < 0 THEN Rat(0, 1) ELSE IF q.n > q.d THEN Rat(1, 1) ELSE q
\* np.maximum((series - data_min) / (data_max - data_min), [0])
_normalize(values, dmax, dmin) ==
    LET q == Rat(values - dmin, dmax - dmin)
    IN  IF q.n < 0 THEN Rat(0, 1) ELSE q

scaler_fit_in_place(frame_, column) ==
    [i \in DOMAIN frame_ |->
        [frame_[i] EXCEPT ![column] = @ - MinOf({frame_[k][column] : k \in DOMAIN frame_})]]
\* scaler.fit(data[[column]]): the table after the scaler has read the column
scaler_fit(frame_, column) == frame_

\* the frame of the call after the elapsed time and the two scalings
prepare(single_df, date) ==
    LET publish == cell_value(single_df, NameChars("videoExactPublishDate"))
        subs == cell_value(single_df, NameChars("creatorSubscriberNumber"))
        length == cell_value(single_df, NameChars("videoLengthSeconds"))
        df1 == set_cell(single_df, TimeToTrendDays, Rat(date - publish, 24 * SecondsPerHour))
        df2 == set_cell(df1, NameChars("creatorSubscriberNumber"),
                   _normalize(subs, data_max("creatorSubscriberNumber"),
                                           data_min("creatorSubscriberNumber")))
    IN  set_cell(df2, NameChars("videoLengthSeconds"),
            _normalize(length, data_max("videoLengthSeconds"),
                                      data_min("videoLengthSeconds")))

\* the covariate vector the fitted model scores a frame by
covariates(X) == [k \in DOMAIN one_hot_cells(X) |-> one_hot_cells(X)[k].value]
CovariateVectors == {<<0, 0>>, <<1, 0>>, <<0, 1>>}

\* self._prep_inputs_for_prediction_and_return_scores(X, ancillary_X): the
\* scale of the covariate vector and the shape of the fitted model
prep_inputs_for_prediction_and_return_scores(self, X) ==
    [lambda_ |-> self.lambda_[covariates(X)], rho_ |-> self.rho_]

\* (times / lambda_) ** rho_
predict_cumulative_hazard_at_single_time(self, X, times) ==
    LET scores == prep_inputs_for_prediction_and_return_scores(self, X)
    IN  RatPow(RatDiv(times, scores.lambda_), scores.rho_)

predict_survival_function_not_negated(self, X, times) ==
    [exp_of |-> predict_cumulative_hazard_at_single_time(self, X, times)]
\* np.exp(-cumulative hazard): the value is kept as its exponent
predict_survival_function_at_single_time(self, X, times) ==
    [exp_of |-> RatNeg(predict_cumulative_hazard_at_single_time(self, X, times))]

Callers == {"a", "b"}
Dates == {k * HalfDay : k \in 0..MaxTick}
Lambdas == {Rat(1, 2), Rat(2, 1)}
Rhos == {1, 2}

NoCall ==
    [pc |-> "idle", video_link |-> "", date |-> 0, video_cat_enc |-> NoEncoder,
     fetched |-> "pending", single_df |-> <<>>, err |-> "none",
     p_surv |-> [exp_of |-> Rat(0, 1)]]

\* the module is loaded: the model is unpickled, nobody has called yet
InitPredict ==
    /\ LabelIdle
    /\ ParseIdle
    /\ CleanIdle
    /\ EncodeIdle
    /\ ScaleIdle
    /\ CurveIdle
    /\ StartIdle
    /\ LoadIdle
    /\ KmfIdle
    /\ youtube = VideoRecords
    /\ \E scale \in [CovariateVectors -> Lambdas], shape \in Rhos :
          FINAL_MODEL = [lambda_ |-> scale, rho_ |-> shape,
                         predict_survival_function_at_single_time |-> "absent",
                         predict_cumulative_hazard_at_single_time |-> "absent"]
    /\ calls = [c \in Callers |-> NoCall]
    /\ model_data = TrainingSample

\* caller c enters survival_probability(video_link, date, video_cat_enc);
\* a call without a date takes the clock
Call(c) ==
    /\ calls[c].pc = "idle"
    /\ \E video_link \in Links, date \in Dates, enc \in {VIDEO_CAT_ENCODER, NoEncoder} :
          calls' = [calls EXCEPT ![c] =
                       [@ EXCEPT !.pc = "fetch", !.video_link = video_link, !.date = date,
                                 !.video_cat_enc = enc]]
    /\ UNCHANGED <<FINAL_MODEL, model_data>>
    /\ UNCHANGED <<labelVars, parseVars, cleanVars, encodeVars, scaleVars, curveVars, startVars, loadVars, kmfVars, apiVars>>

\* the record is fetched and the frame of the call is prepared
Fetch(c) ==
    /\ calls[c].pc = "fetch"
    /\ \E http_ok \in BOOLEAN :
          LET r == get_video_details(calls[c].video_link, calls[c].video_cat_enc, http_ok)
          IN  /\ calls' = [calls EXCEPT ![c] =
                     IF r.err # "none"
                     THEN [@ EXCEPT !.pc = "done", !.fetched = "ok", !.err = r.err]
                     ELSE IF r.is_none
                     THEN [@ EXCEPT !.pc = "done", !.fetched = "failed",
                                    !.err = "TypeError"]
                     ELSE [@ EXCEPT !.pc = "patch_survival", !.fetched = "ok",
                                    !.single_df = prepare(r.df, calls[c].date)]]
              /\ model_data' =
                     IF r.err # "none" \/ r.is_none THEN model_data
                     ELSE scaler_fit(scaler_fit(model_data, "creatorSubscriberNumber"),
                                     "videoLengthSeconds")
    /\ UNCHANGED FINAL_MODEL
    /\ UNCHANGED <<labelVars, parseVars, cleanVars, encodeVars, scaleVars, curveVars, startVars, loadVars, kmfVars, apiVars>>

\* FINAL_MODEL.predict_survival_function_at_single_time = the function of this call
PatchSurvival(c) ==
    /\ calls[c].pc = "patch_survival"
    /\ FINAL_MODEL' = [FINAL_MODEL EXCEPT !.predict_survival_function_at_single_time = c]
    /\ calls' = [calls EXCEPT ![c].pc = "patch_hazard"]
    /\ UNCHANGED model_data
    /\ UNCHANGED <<labelVars, parseVars, cleanVars, encodeVars, scaleVars, curveVars, startVars, loadVars, kmfVars, apiVars>>

\* FINAL_MODEL.predict_cumulative_hazard_at_single_time = the function of this call
PatchHazard(c) ==
    /\ calls[c].pc = "patch_hazard"
    /\ FINAL_MODEL' = [FINAL_MODEL EXCEPT !.predict_cumulative_hazard_at_single_time = c]
    /\ calls' = [calls EXCEPT ![c].pc = "evaluate"]
    /\ UNCHANGED model_data
    /\ UNCHANGED <<labelVars, parseVars, cleanVars, encodeVars, scaleVars, curveVars, startVars, loadVars, kmfVars, apiVars>>

\* p_surv = FINAL_MODEL.predict_survival_function_at_single_time(...); return
Evaluate(c) ==
    /\ calls[c].pc = "evaluate"
    /\ FINAL_MODEL.predict_survival_function_at_single_time # "absent"
    /\ FINAL_MODEL.predict_cumulative_hazard_at_single_time # "absent"
    /\ calls' = [calls EXCEPT ![c] =
                   [@ EXCEPT !.pc = "done",
                             !.p_surv = predict_survival_function_at_single_time(
                                            FINAL_MODEL, calls[c].single_df,
                                            cell_value(calls[c].single_df, TimeToTrendDays))]]
    /\ UNCHANGED <<FINAL_MODEL, model_data>>
    /\ UNCHANGED <<labelVars, parseVars, cleanVars, encodeVars, scaleVars, curveVars, startVars, loadVars, kmfVars, apiVars>>

NextPredict ==
    \E c \in Callers :
        Call(c) \/ Fetch(c) \/ PatchSurvival(c) \/ PatchHazard(c) \/ Evaluate(c)

SpecPredict == InitPredict /\ [][NextPredict]_vars

\* a call that has returned a value
Returned(c) == calls[c].pc = "done" /\ calls[c].err = "none"
elapsed(c) == cell_value(calls[c].single_df, TimeToTrendDays)

\* C9: no step of a call of survival_probability changes the shared model
\* object (no attribute is added or replaced), and under every interleaving
\* a call that returns gives the value that the evaluation of its own frame
\* gives alone.
C9_EvaluationIsPure ==
    /\ [][FINAL_MODEL' = FINAL_MODEL]_vars
    /\ [](\A c \in DOMAIN calls :
             Returned(c) =>
                 calls[c].p_surv =
                     predict_survival_function_at_single_time(
                         FINAL_MODEL, calls[c].single_df, elapsed(c)))

\* C10: for an elapsed time t >= 0 and scores lambda > 0, rho > 0 the value
\* exp(-(t/lambda)^rho) returned lies in [0, 1], and it is 1 when t = 0.
\* The value is exp(x) for the exponent x kept by the model: it lies in
\* [0, 1] exactly when x <= 0 and it is 1 exactly when x = 0.
C10_SurvivalInUnitInterval ==
    \A c \in DOMAIN calls :
        (Returned(c) /\ elapsed(c).n >= 0) =>
            /\ calls[c].p_surv.exp_of.d > 0
            /\ calls[c].p_surv.exp_of.n <= 0
            /\ elapsed(c).n = 0 => calls[c].p_surv.exp_of.n = 0

C10_Witness ==
    \E c, c2 \in DOMAIN calls :
        /\ Returned(c) /\ elapsed(c).n = 0 /\ calls[c].p_surv.exp_of.n = 0
        /\ Returned(c2) /\ elapsed(c2).n > 0 /\ calls[c2].p_surv.exp_of.n < 0

\* C17: no step of a prediction call changes the training table, and the
\* (min, max) ranges of subscriber count and video length that the scaling
\* reads from it stay those of the table loaded at start-up.
C17_ScalingRangeUnchanged ==
    /\ [][model_data' = model_data]_vars
    /\ [](\A column \in {"creatorSubscriberNumber", "videoLengthSeconds"} :
             (\E c \in DOMAIN calls : calls[c].pc # "idle") =>
                 /\ data_max(column) = MaxOf({TrainingSample[i][column] : i \in DOMAIN TrainingSample})
                 /\ data_min(column) = MinOf({TrainingSample[i][column] : i \in DOMAIN TrainingSample}))

\* two calls have returned a value and the ranges are those of start-up
C17_Witness ==
    /\ \A c \in DOMAIN calls : Returned(c)
    /\ calls # <<>>
    /\ data_min("creatorSubscriberNumber") = 100 /\ data_max("creatorSubscriberNumber") = 900
    /\ data_min("videoLengthSeconds") = 30 /\ data_max("videoLengthSeconds") = 90

\* the errors that other faults of a call raise: a missing encoder, a frame
\* that is not a frame, a value out of its domain
UnrelatedErrors == {"AttributeError", "TypeError", "ValueError"}

\* C22: a call whose fetch of the video's record fails ends with an outcome
\* of its own that says the data is unavailable: it returns no probability
\* and it does not fail with an error that other faults raise.
C22_FetchFailureIsDataUnavailable ==
    \A c \in DOMAIN calls :
        (calls[c].pc = "done" /\ calls[c].fetched = "failed") =>
            /\ calls[c].err # "none"
            /\ calls[c].err \notin UnrelatedErrors

----------------------------------------------------------------------------
(* PredictionPreprocessor: _normalize on a series *)

\* _normalize(series, data_max, data_min): numpy works entry by entry
normalize_series(values, dmax, dmin) ==
    [i \in DOMAIN values |-> _normalize(values[i], dmax, dmin)]

ScaleValues == 1..MaxScaleValue
ScaleBounds == 2..4

InitScale ==
    /\ LabelIdle
    /\ ParseIdle
    /\ CleanIdle
    /\ EncodeIdle
    /\ PredictIdle
    /\ CurveIdle
    /\ StartIdle
    /\ LoadIdle
    /\ KmfIdle
    /\ ApiIdle
    /\ \E lo \in ScaleBounds, hi \in ScaleBounds :
          /\ lo <= hi
          /\ scaling = [series |-> <<>>, data_max |-> hi, data_min |-> lo]
    /\ scaled = [done |-> FALSE, values |-> <<>>]

\* one more entry in the series to scale
AppendValue ==
    /\ ~scaled.done
    /\ Len(scaling.series) < MaxScaleLen
    /\ \E x \in ScaleValues : scaling' = [scaling EXCEPT !.series = Append(@, x)]
    /\ UNCHANGED scaled
    /\ UNCHANGED <<labelVars, parseVars, cleanVars, encodeVars, predictVars, curveVars, startVars, loadVars, kmfVars, apiVars>>

\* _normalize(series, data_max, data_min)
Normalize ==
    /\ ~scaled.done
    /\ scaled' = [done |-> TRUE,
                  values |-> normalize_series(scaling.series, scaling.data_max, scaling.data_min)]
    /\ UNCHANGED scaling
    /\ UNCHANGED <<labelVars, parseVars, cleanVars, encodeVars, predictVars, curveVars, startVars, loadVars, kmfVars, apiVars>>

NextScale == AppendValue \/ Normalize

SpecScale == InitScale /\ [][NextScale]_vars

\* C11: for a training range with max > min every entry x of the series maps
\* to max((x - min)/(max - min), 0): 0 below min, the exact quotient from min
\* upwards, and so more than 1 above max (no upper clamp).
C11_LowerClampOnly ==
    (scaled.done /\ scaling.data_max > scaling.data_min) =>
        /\ Len(scaled.values) = Len(scaling.series)
        /\ \A i \in DOMAIN scaling.series :
              LET x == scaling.series[i]
                  y == scaled.values[i]
                  width == scaling.data_max - scaling.data_min
              IN  /\ y.d > 0
                  /\ x < scaling.data_min => y.n = 0
                  /\ x >= scaling.data_min => y.n * width = (x - scaling.data_min) * y.d
                  /\ x > scaling.data_max => y.n > y.d

\* the range (2, 4) maps 1, 3, 5 to 0, 0.5, 1.5
C11_Witness ==
    /\ scaled.done
    /\ scaling.data_min = 2 /\ scaling.data_max = 4
    /\ scaling.series = <<1, 3, 5>>
    /\ scaled.values = <<[n |-> 0, d |-> 1], [n |-> 1, d |-> 2], [n |-> 3, d |-> 2]>>

----------------------------------------------------------------------------
(* TrendCurveGenerator: plot_survival_probability *)

\* the whole of survival_probability(video_link, date, video_cat_enc) as one
\* step: the value returned or the exception raised, and whether the call
\* got as far as patching the model
survival_probability(model, video_link, date, video_cat_enc, http_ok) ==
    LET r == get_video_details(video_link, video_cat_enc, http_ok)
    IN  IF r.err # "none"
        THEN [err |-> r.err, patched |-> FALSE, single_df |-> <<>>,
              p_surv |-> [exp_of |-> Rat(0, 1)]]
        ELSE IF r.is_none
        THEN [err |-> "TypeError", patched |-> FALSE, single_df |-> <<>>,
              p_surv |-> [exp_of |-> Rat(0, 1)]]
        ELSE LET single_df == prepare(r.df, date)
             IN  [err |-> "none", patched |-> TRUE, single_df |-> single_df,
                  p_surv |-> predict_survival_function_at_single_time(
                                 model, single_df, cell_value(single_df, TimeToTrendDays))]

\* int(duration_days / gap)
sample_count(duration_days, gap) == (duration_days * gap.d) \div gap.n

durations_from_zero(duration_days, gap) ==
    [i \in 1..sample_count(duration_days, gap) |-> Rat(gap.n * (i - 1), gap.d)]
\* [gap * (i + 1) for i in range(int(duration_days / gap))]
durations(duration_days, gap) ==
    [i \in 1..sample_count(duration_days, gap) |-> Rat(gap.n * i, gap.d)]

\* date_0 + pd.Timedelta(days=dur), in seconds
plus_days(date_0, dur) == date_0 + (dur.n * SecondsPerDay) \div dur.d

\* the earlier of the publish instant and the start date
first_date_earlier(single_df, start) ==
    LET publish == cell_value(single_df, NameChars("videoExactPublishDate"))
    IN  IF start.given /\ start.at < publish THEN start.at ELSE publish
\* the publish instant of the frame, or the later of it and the start date
first_date(single_df, start) ==
    LET publish == cell_value(single_df, NameChars("videoExactPublishDate"))
    IN  IF start.given /\ start.at > publish THEN start.at ELSE publish

Spans == 1..MaxSpan
Gaps == {Rat(1, 2), Rat(1, 1), Rat(3, 2)}
StartDates == {[given |-> FALSE, at |-> 0]} \cup {[given |-> TRUE, at |-> d] : d \in Dates}

NoCurve ==
    [pc |-> "idle", single_df |-> <<>>, start_date |-> [given |-> FALSE, at |-> 0],
     duration_days |-> 0, gap |-> Rat(0, 1), video_link |-> "", video_cat_enc |-> NoEncoder,
     duration |-> <<>>, date_0 |-> 0, sample_dates |-> <<>>, frames |-> <<>>,
     p_survivals |-> <<>>,
     x |-> <<>>, y |-> <<>>, err |-> "none"]

InitCurve ==
    /\ LabelIdle
    /\ ParseIdle
    /\ CleanIdle
    /\ EncodeIdle
    /\ ScaleIdle
    /\ StartIdle
    /\ LoadIdle
    /\ KmfIdle
    /\ youtube = VideoRecords
    /\ \E scale \in [CovariateVectors -> Lambdas], shape \in Rhos :
          FINAL_MODEL = [lambda_ |-> scale, rho_ |-> shape,
                         predict_survival_function_at_single_time |-> "absent",
                         predict_cumulative_hazard_at_single_time |-> "absent"]
    /\ calls = [c \in Callers |-> NoCall]
    /\ model_data = TrainingSample
    /\ curve = NoCurve

\* plot_survival_probability is entered with the frame its caller fetched:
\* the sample durations are built and the first date is chosen
StartCurve ==
    /\ curve.pc = "idle"
    /\ \E video_link \in Links, fetched \in BOOLEAN, start \in StartDates,
          duration_days \in Spans, gap \in Gaps, enc \in {VIDEO_CAT_ENCODER, NoEncoder} :
          LET given == get_video_details(video_link, VIDEO_CAT_ENCODER, fetched)
              duration == durations(duration_days, gap)
              args == [NoCurve EXCEPT !.start_date = start, !.duration_days = duration_days,
                                      !.gap = gap, !.video_link = video_link,
                                      !.video_cat_enc = enc]
          IN  curve' =
                  IF given.is_none
                  THEN [args EXCEPT !.pc = "done", !.err = "AttributeError"]
                  ELSE IF duration = <<>>
                  THEN [args EXCEPT !.pc = "done", !.err = "ValueError", !.single_df = given.df]
                  ELSE [args EXCEPT !.pc = "loop", !.single_df = given.df,
                                    !.duration = duration,
                                    !.date_0 = first_date(given.df, start)]
    /\ UNCHANGED <<FINAL_MODEL, calls, model_data>>
    /\ UNCHANGED <<labelVars, parseVars, cleanVars, encodeVars, scaleVars, startVars, loadVars, kmfVars, apiVars>>

\* one turn of the loop: survival_probability at the next date
Sample ==
    /\ curve.pc = "loop"
    /\ Len(curve.p_survivals) < Len(curve.duration)
    /\ \E http_ok \in BOOLEAN :
          LET i == Len(curve.p_survivals) + 1
              current_date == plus_days(curve.date_0, curve.duration[i])
              r == survival_probability(FINAL_MODEL, curve.video_link, current_date,
                                        curve.video_cat_enc, http_ok)
          IN  /\ curve' =
                     IF r.err # "none"
                     THEN [curve EXCEPT !.pc = "done", !.err = r.err,
                                        !.sample_dates = Append(@, current_date)]
                     ELSE [curve EXCEPT !.sample_dates = Append(@, current_date),
                                        !.frames = Append(@, r.single_df),
                                        !.p_survivals = Append(@, r.p_surv)]
              /\ FINAL_MODEL' =
                     IF r.patched
                     THEN [FINAL_MODEL EXCEPT
                              !.predict_survival_function_at_single_time = "curve",
                              !.predict_cumulative_hazard_at_single_time = "curve"]
                     ELSE FINAL_MODEL
              /\ model_data' =
                     IF r.patched
                     THEN scaler_fit(scaler_fit(model_data, "creatorSubscriberNumber"),
                                     "videoLengthSeconds")
                     ELSE model_data
    /\ UNCHANGED calls
    /\ UNCHANGED <<labelVars, parseVars, cleanVars, encodeVars, scaleVars, startVars, loadVars, kmfVars, apiVars>>

\* x = list(range(1, len(duration) + 1)); y = list(p_survivals); return x, y
ReturnCurve ==
    /\ curve.pc = "loop"
    /\ Len(curve.p_survivals) = Len(curve.duration)
    /\ curve' = [curve EXCEPT !.pc = "done",
                              !.x = [k \in 1..Len(curve.duration) |-> k],
                              !.y = curve.p_survivals]
    /\ UNCHANGED <<FINAL_MODEL, calls, model_data>>
    /\ UNCHANGED <<labelVars, parseVars, cleanVars, encodeVars, scaleVars, startVars, loadVars, kmfVars, apiVars>>

\* the subscriber counts a channel may show
SubscriberCounts == {100, 800, 900}

\* the channel of a video gains or loses subscribers while a curve is being
\* generated: the platform's record changes, once
ChannelChanges ==
    /\ curve.pc = "loop"
    /\ youtube = VideoRecords
    /\ \E video_link \in Links, n \in SubscriberCounts :
          /\ n # youtube[video_link].creatorSubscriberNumber
          /\ youtube' = [youtube EXCEPT ![video_link].creatorSubscriberNumber = n]
    /\ UNCHANGED <<FINAL_MODEL, calls, model_data, curve>>
    /\ UNCHANGED <<labelVars, parseVars, cleanVars, encodeVars, scaleVars, startVars, loadVars, kmfVars>>

NextCurve == StartCurve \/ Sample \/ ReturnCurve \/ ChannelChanges

SpecCurve == InitCurve /\ [][NextCurve]_vars

\* floor(span_days / gap_days)
FloorOfQuotient(span, gap) ==
    CHOOSE n \in 0..(span * gap.d) : n * gap.n <= span * gap.d /\ (n + 1) * gap.n > span * gap.d

\* the call failed on a fetch or on a missing encoder
CurveInputFailed == curve.err \in {"AttributeError", "TypeError"}

\* C12: for span_days > 0 and gap_days > 0 the call returns a step sequence
\* and a probability sequence, both of length floor(span_days / gap_days),
\* and the steps are 1, 2, ..., length in increasing order.
C12_CurveLength ==
    (curve.pc = "done" /\ ~CurveInputFailed) =>
        LET n == FloorOfQuotient(curve.duration_days, curve.gap)
        IN  /\ curve.err = "none"
            /\ Len(curve.x) = n
            /\ Len(curve.y) = n
            /\ \A k \in DOMAIN curve.x : curve.x[k] = k

\* the instant the curve starts from, as the claim defines it
ClaimedStart ==
    LET publish == video_info(curve.video_link).videoExactPublishDate
    IN  IF ~curve.start_date.given THEN publish
        ELSE IF curve.start_date.at > publish THEN curve.start_date.at ELSE publish

\* C13: the k-th sample (k = 1..n) is evaluated at start + k * gap days,
\* where start is the publish instant of the video when no start date is
\* given and otherwise the later of the start date and the publish instant.
C13_SampleInstants ==
    \A k \in DOMAIN curve.sample_dates :
        (curve.sample_dates[k] - ClaimedStart) * curve.gap.d = k * curve.gap.n * SecondsPerDay

C13_Witness ==
    /\ curve.pc = "done" /\ curve.err = "none"
    /\ Len(curve.sample_dates) >= 2
    /\ Len(curve.y) = Len(curve.sample_dates)
    /\ curve.start_date.given
    /\ curve.start_date.at > video_info(curve.video_link).videoExactPublishDate
    /\ curve.sample_dates[2] = curve.start_date.at + SecondsPerDay

\* the covariates of a sample: its frame without the elapsed time
covariates_of(frame_) == SelectSeq(frame_, LAMBDA c : c.name # TimeToTrendDays)

\* C29: every sample of one curve is evaluated on the same covariates
\* (publish instant, subscriber count, length, category), whatever happens
\* to the video's record on the platform while the curve is generated.
C29_OneCovariateVectorPerCurve ==
    \A i, j \in DOMAIN curve.frames :
        covariates_of(curve.frames[i]) = covariates_of(curve.frames[j])

\* a <= b and a < b for quotients with positive denominators
RatLeq(a, b) == a.n * b.d <= b.n * a.d
RatLess(a, b) == a.n * b.d < b.n * a.d

\* the elapsed time since publication that a sample was evaluated at, in days
elapsed_of(frame_) == cell_value(frame_, TimeToTrendDays)

\* C30: every sample of a curve is evaluated at a strictly positive elapsed
\* time since publication, the elapsed times grow strictly with the step,
\* and the probabilities do not grow with the step (the scores of the model
\* are positive and the category of the video is the same at every sample).
C30_ElapsedPositiveAndIncreasing ==
    /\ \A i \in DOMAIN curve.frames : RatLess(Rat(0, 1), elapsed_of(curve.frames[i]))
    /\ \A i, j \in DOMAIN curve.frames :
          i < j =>
             /\ RatLess(elapsed_of(curve.frames[i]), elapsed_of(curve.frames[j]))
             /\ RatLeq(curve.p_survivals[j].exp_of, curve.p_survivals[i].exp_of)

\* a returned curve of four samples that starts at the publish instant, the
\* probability falling at every step
C30_Witness ==
    /\ curve.pc = "done" /\ curve.err = "none"
    /\ Len(curve.y) = 4
    /\ curve.date_0 = video_info(curve.video_link).videoExactPublishDate
    /\ \A k \in 1..3 : RatLess(curve.y[k + 1].exp_of, curve.y[k].exp_of)

----------------------------------------------------------------------------
(* Category Vocabulary lifecycle: the data module is loaded, then requests
   are encoded with its VIDEO_CAT_ENCODER *)

\* a row of a labelled training table with the given category
TrainingRow(cat) ==
    [videoCategory |-> cat,
     videoExactPublishDate |-> 1641038400,
     creatorSubscriberNumber |-> 800,
     videoLengthSeconds |-> 60,
     timeToTrendSeconds |-> 43200,
     isTrend |-> TRUE]

\* the tables a training run or the data file may hold
TrainingTables ==
    UNION {[1..n -> {TrainingRow(cat) : cat \in CategoryLabels}] : n \in 1..MaxTrain}

\* the encoder pickled at training time was fitted on the training table of
\* that time; the data file holds a table of its own
InitStartup ==
    /\ LabelIdle
    /\ ParseIdle
    /\ CleanIdle
    /\ EncodeIdle
    /\ PredictIdle
    /\ ScaleIdle
    /\ CurveIdle
    /\ LoadIdle
    /\ KmfIdle
    /\ ApiIdle
    /\ \E trained \in TrainingTables, csv \in TrainingTables :
          artifacts = [encoder_pickle |-> encoder_fit(OneHotEncoder, trained),
                       data_csv |-> csv]
    /\ loaded = [pc |-> "import", MODEL |-> "None", VIDEO_CAT_ENCODER |-> OneHotEncoder,
                 DURATION_MODEL_DF |-> <<>>]
    /\ requests = <<>>

\* MODEL = load_pickle(...); VIDEO_CAT_ENCODER = load_pickle(...)
LoadPickles ==
    /\ loaded.pc = "import"
    /\ loaded' = [loaded EXCEPT !.pc = "pickles loaded",
                                !.MODEL = "duration_model.pickle",
                                !.VIDEO_CAT_ENCODER = artifacts.encoder_pickle]
    /\ UNCHANGED <<artifacts, requests>>
    /\ UNCHANGED <<labelVars, parseVars, cleanVars, encodeVars, predictVars, scaleVars, curveVars, loadVars, kmfVars, apiVars>>

\* DURATION_MODEL_DF, MODEL_FEATURES, VIDEO_CAT_ENCODER = preprocessing_on_loading(csv)
bind_preprocessing(namespace, fit) ==
    [namespace EXCEPT !.pc = "ready",
                      !.DURATION_MODEL_DF = fit.df,
                      !.VIDEO_CAT_ENCODER = fit.encoder]

\* the last statement of the module: the data file is preprocessed in fit mode
PreprocessOnLoading ==
    /\ loaded.pc = "pickles loaded"
    /\ LET fit == preprocessing_on_loading("train.csv", [given |-> FALSE, rows |-> <<>>],
                                           FALSE, NoEncoder, artifacts.data_csv)
       IN  loaded' = IF fit.err # "none" THEN [loaded EXCEPT !.pc = "import failed"]
                     ELSE bind_preprocessing(loaded, fit)
    /\ UNCHANGED <<artifacts, requests>>
    /\ UNCHANGED <<labelVars, parseVars, cleanVars, encodeVars, predictVars, scaleVars, curveVars, loadVars, kmfVars, apiVars>>

\* a prediction request: the record of a video is encoded in apply mode with
\* the VIDEO_CAT_ENCODER of the module
EncodeRequest ==
    /\ loaded.pc = "ready"
    /\ Len(requests) < MaxRequests
    /\ \E cat \in CategoryLabels :
          LET record == <<[videoCategory |-> cat,
                           videoExactPublishDate |-> 1641038400,
                           creatorSubscriberNumber |-> 800,
                           videoLengthSeconds |-> 60]>>
              r == preprocessing_on_loading(
                       "None", [given |-> TRUE, rows |-> record], TRUE,
                       [given |-> TRUE, enc |-> loaded.VIDEO_CAT_ENCODER], <<>>)
          IN  requests' = Append(requests,
                  [category |-> cat, err |-> r.err,
                   vocabulary |-> loaded.VIDEO_CAT_ENCODER.categories_,
                   one_hot |-> IF r.err = "none" THEN one_hot_cells(r.df[1]) ELSE <<>>])
    /\ UNCHANGED <<artifacts, loaded>>
    /\ UNCHANGED <<labelVars, parseVars, cleanVars, encodeVars, predictVars, scaleVars, curveVars, loadVars, kmfVars, apiVars>>

NextStartup == LoadPickles \/ PreprocessOnLoading \/ EncodeRequest

SpecStartup == InitStartup /\ [][NextStartup]_vars

\* C16: every prediction request is encoded with the persisted vocabulary
\* learned at training time, and once the persisted encoder is loaded no
\* start-up step and no prediction replaces or refits it.
C16_VocabularyIsThePersistedOne ==
    /\ [](\A k \in DOMAIN requests :
             requests[k].vocabulary = artifacts.encoder_pickle.categories_)
    /\ [][loaded.pc \notin {"unloaded", "import"} =>
              loaded'.VIDEO_CAT_ENCODER = loaded.VIDEO_CAT_ENCODER]_vars

----------------------------------------------------------------------------
(* RawDatasetLoader: _load_data *)

\* the data folder and a path that is not a directory
DataFolder == "original_data"
Folders == {DataFolder, "nowhere"}
\* the paths a caller may name
FileNames == {<<"d", "a", "t", "a", "s", "e", "t", "1", ".", "c", "s", "v">>, <<"d", "a", "t", "a", "s", "e", "t", "2", ".", "c", "s", "v">>, <<"n", "o", "t", "e", "s", ".", "c", "s", "v">>}
Patterns == {<<"d", "a", "t", "a", "s", "e", "t", "*">>, <<"n", "o", "t", "e", "s", "*">>}
Absent == "absent"
\* the content of a csv file: its rows after the header, one video id each
FileContents == {<<>>, <<"video1">>, <<"video2">>, <<"video1", "video2">>}

\* fnmatch of a file name against a pattern whose only wildcard is *
RECURSIVE fnmatch(_, _)
fnmatch(name, pat) ==
    IF pat = <<>> THEN name = <<>>
    ELSE IF pat[1] = "*"
    THEN fnmatch(name, Tail(pat)) \/ (name # <<>> /\ fnmatch(Tail(name), pat))
    ELSE name # <<>> /\ name[1] = pat[1] /\ fnmatch(Tail(name), Tail(pat))

\* the set of paths that Path(folder).glob(pattern) yields
glob(folder, pattern) ==
    IF folder # DataFolder THEN {}
    ELSE {f \in FileNames : disk[f] # Absent /\ fnmatch(f, pattern)}

\* the orders in which a directory scan may yield a set of paths
Orders(S) == {o \in [1..Cardinality(S) -> S] : Range(o) = S}

\* a reader that takes a missing file for a file without rows
read_csv_missing_as_empty(file) ==
    [err |-> "none", rows |-> IF disk[file] = Absent THEN <<>> ELSE disk[file]]

\* pd.read_csv(file, index_col=0)
read_csv(file) ==
    IF disk[file] = Absent THEN [err |-> "FileNotFoundError", rows |-> <<>>]
    ELSE [err |-> "none", rows |-> disk[file]]

RECURSIVE Flatten(_)
Flatten(dfs) == IF dfs = <<>> THEN <<>> ELSE dfs[1] \o Flatten(Tail(dfs))

\* a concatenation that keeps the index of each file
pd_concat_keep_index(dfs) ==
    IF dfs = <<>> THEN [err |-> "ValueError", table |-> <<>>]
    ELSE [err |-> "none",
          table |-> Flatten([k \in DOMAIN dfs |->
                       [i \in DOMAIN dfs[k] |-> [idx |-> i - 1, videoId |-> dfs[k][i]]]])]

\* pd.concat(dfs, ignore_index=True): the rows in the order of the list,
\* numbered anew from 0
pd_concat(dfs) ==
    IF dfs = <<>> THEN [err |-> "ValueError", table |-> <<>>]
    ELSE LET rows == Flatten(dfs)
         IN  [err |-> "none",
              table |-> [i \in DOMAIN rows |-> [idx |-> i - 1, videoId |-> rows[i]]]]

NoTable == "no table"

\* the statements of _load_data after `files` is bound: the files are read
\* in the order of the list, the first failing read ends the call
read_and_concat(use_filenames, files) ==
    LET reads == [i \in DOMAIN files |-> read_csv(files[i])]
        failed == {i \in DOMAIN files : reads[i].err # "none"}
    IN  IF failed # {}
        THEN [pc |-> "done", use_filenames |-> use_filenames, files |-> files,
              err |-> reads[MinOf(failed)].err, table |-> NoTable]
        ELSE LET c == pd_concat([i \in DOMAIN files |-> reads[i].rows])
             IN  [pc |-> "done", use_filenames |-> use_filenames, files |-> files,
                  err |-> c.err, table |-> IF c.err = "none" THEN c.table ELSE NoTable]

\* the lists of paths a caller may pass as filenames
FileLists == UNION {[1..n -> FileNames] : n \in 0..MaxListed}

InitLoad ==
    /\ LabelIdle
    /\ ParseIdle
    /\ CleanIdle
    /\ EncodeIdle
    /\ PredictIdle
    /\ ScaleIdle
    /\ CurveIdle
    /\ StartIdle
    /\ KmfIdle
    /\ ApiIdle
    /\ disk = [f \in FileNames |-> Absent]
    /\ load = [pc |-> "idle"]

\* a file is written to the data folder
WriteFile ==
    /\ load.pc = "idle"
    /\ \E f \in FileNames, content \in FileContents :
          /\ disk[f] = Absent
          /\ disk' = [disk EXCEPT ![f] = content]
    /\ UNCHANGED load
    /\ UNCHANGED <<labelVars, parseVars, cleanVars, encodeVars, predictVars, scaleVars, curveVars, startVars, kmfVars, apiVars>>

\* _load_data(folder, pattern): use_filenames is False
LoadFolder ==
    /\ load.pc = "idle"
    /\ \E folder \in Folders, pattern \in Patterns :
          IF glob(folder, pattern) = {}
          THEN load' = [pc |-> "done", use_filenames |-> FALSE,
                        folder |-> folder, pattern |-> pattern, files |-> <<>>,
                        err |-> "FileNotFoundError", table |-> NoTable]
          ELSE \E files \in Orders(glob(folder, pattern)) :
                  load' = [folder |-> folder, pattern |-> pattern]
                             @@ read_and_concat(FALSE, files)
    /\ UNCHANGED disk
    /\ UNCHANGED <<labelVars, parseVars, cleanVars, encodeVars, predictVars, scaleVars, curveVars, startVars, kmfVars, apiVars>>

\* _load_data(use_filenames=True, filenames=...)
LoadFiles ==
    /\ load.pc = "idle"
    /\ \E filenames \in FileLists : load' = read_and_concat(TRUE, filenames)
    /\ UNCHANGED disk
    /\ UNCHANGED <<labelVars, parseVars, cleanVars, encodeVars, predictVars, scaleVars, curveVars, startVars, kmfVars, apiVars>>

NextLoad == WriteFile \/ LoadFolder \/ LoadFiles

SpecLoad == InitLoad /\ [][NextLoad]_vars

\* the requested paths that do not exist
MissingPaths == {i \in DOMAIN load.files : disk[load.files[i]] = Absent}

\* C20: a call in folder mode that finds no file matching the pattern ends
\* with a not-found error, a call in file-list mode with a requested path
\* that does not exist ends with a file error, and neither returns a table.
C20_LoaderErrorOutcomes ==
    /\ (load.pc = "done" /\ ~load.use_filenames
           /\ glob(load.folder, load.pattern) = {}) =>
          (load.err = "FileNotFoundError" /\ load.table = NoTable)
    /\ (load.pc = "done" /\ load.use_filenames /\ MissingPaths # {}) =>
          (load.err = "FileNotFoundError" /\ load.table = NoTable)

\* a list whose first file exists and has a row and whose second is missing
C20_Witness ==
    /\ load.pc = "done" /\ load.use_filenames
    /\ Len(load.files) = 2
    /\ disk[load.files[1]] # Absent /\ disk[load.files[1]] # <<>>
    /\ disk[load.files[2]] = Absent
    /\ load.err = "FileNotFoundError" /\ load.table = NoTable

\* the number of rows of the files before the i-th of the list
RECURSIVE RowsBefore(_, _)
RowsBefore(files, i) ==
    IF i = 1 THEN 0 ELSE RowsBefore(files, i - 1) + Len(disk[files[i - 1]])

\* C21: a call that returns a table returns as many rows as the files of the
\* list have in total, the rows of each file contiguous, in the order of the
\* file, the files in the order of the list, and the index is 0..n-1.
C21_ConcatenationInInputOrder ==
    (load.pc = "done" /\ load.err = "none") =>
        /\ Len(load.table) = RowsBefore(load.files, Len(load.files) + 1)
        /\ \A i \in DOMAIN load.files : \A j \in DOMAIN disk[load.files[i]] :
              load.table[RowsBefore(load.files, i) + j].videoId = disk[load.files[i]][j]
        /\ \A k \in DOMAIN load.table : load.table[k].idx = k - 1

\* two files with different rows, the one of two rows first
C21_Witness ==
    /\ load.pc = "done" /\ load.err = "none"
    /\ Len(load.files) = 2
    /\ disk[load.files[1]] = <<"video1", "video2">>
    /\ disk[load.files[2]] = <<"video2">>
    /\ Len(load.table) = 3

----------------------------------------------------------------------------
(* GroupSurvivalEstimator: the Kaplan-Meier estimator of one (day, category)
   group of the training table *)

\* the least share of censored rows of a group, in percent
MinCensoredPercent == 5

\* str.title(): the first letter of every word in upper case, the others in
\* lower case
str_title(s) ==
    [i \in DOMAIN s |->
        IF i = 1 \/ ~(IsUpper(s[i - 1]) \/ IsLower(s[i - 1]))
        THEN upper_char(s[i]) ELSE lower_char(s[i])]

\* the values of a column observed in the training table
observed(df, column) == {df[i][column] : i \in DOMAIN df}

\* a validation that looks at the category alone
validate_category_only(day, category, df) ==
    category \in observed(df, "videoCategory")

\* both labels are among the values observed in the training table
validate_group(day, category, df) ==
    /\ day \in observed(df, "dayOfWeek")
    /\ category \in observed(df, "videoCategory")

\* the rows of the group; without any, the rows of the category, and the
\* group label is unresolved
filter_group(day, category, df) ==
    LET both == SelectSeq(df, LAMBDA r : r.dayOfWeek = day /\ r.videoCategory = category)
    IN  IF both # <<>> THEN [rows |-> both, label |-> category]
        ELSE [rows |-> SelectSeq(df, LAMBDA r : r.videoCategory = category),
              label |-> <<"N", "o", "n", "e">>]

\* the number of rows with isTrend = 0
censored(rows) == Cardinality({i \in DOMAIN rows : rows[i].isTrend = 0})

\* small-sample stabilization: while the censored rows are less than the
\* least share of the group, a row of the group is duplicated as censored
stabilize(rows) ==
    LET missing == CHOOSE k \in 0..Len(rows) :
                      /\ 100 * (censored(rows) + k) >= MinCensoredPercent * Len(rows)
                      /\ \A j \in 0..(k - 1) :
                            100 * (censored(rows) + j) < MinCensoredPercent * Len(rows)
    IN  rows \o [i \in 1..missing |-> [rows[i] EXCEPT !.isTrend = 0]]

\* the estimator of the group: the error, or the fitted estimator and the
\* label of the group
kmf_model_per_day_and_video_cat(day, category, df) ==
    LET cat == str_title(category)
    IN  IF ~validate_group(day, cat, df)
        THEN [pc |-> "done", day |-> day, category |-> category,
              err |-> "InvalidGroupError",
              valid |-> [days |-> observed(df, "dayOfWeek"),
                         categories |-> observed(df, "videoCategory")],
              fitted |-> FALSE, label |-> <<>>, sample |-> <<>>]
        ELSE LET group == filter_group(day, cat, df)
             IN  [pc |-> "done", day |-> day, category |-> category,
                  err |-> "none", valid |-> [days |-> {}, categories |-> {}],
                  fitted |-> TRUE, label |-> group.label,
                  sample |-> stabilize(group.rows)]

GroupDays == {"Monday", "Tuesday"}
GroupCategories == {<<"C", "o", "m", "e", "d", "y">>, <<"M", "u", "s", "i", "c">>}
AskedDays == GroupDays \cup {"Sunday"}
AskedCategories == GroupCategories \cup {<<"c", "o", "m", "e", "d", "y">>, <<"G", "a", "m", "i", "n", "g">>}

InitGroup ==
    /\ LabelIdle
    /\ ParseIdle
    /\ CleanIdle
    /\ EncodeIdle
    /\ PredictIdle
    /\ ScaleIdle
    /\ CurveIdle
    /\ StartIdle
    /\ LoadIdle
    /\ ApiIdle
    /\ full_df = <<>>
    /\ kmf = [pc |-> "idle"]

\* one more row of the training table
AddGroupRow ==
    /\ kmf.pc = "idle"
    /\ Len(full_df) < MaxGroupRows
    /\ \E day \in GroupDays, cat \in GroupCategories, trend \in {0, 1} :
          full_df' = Append(full_df,
              [dayOfWeek |-> day, videoCategory |-> cat, isTrend |-> trend,
               videoLengthDays |-> Len(full_df) + 1])
    /\ UNCHANGED kmf
    /\ UNCHANGED <<labelVars, parseVars, cleanVars, encodeVars, predictVars, scaleVars, curveVars, startVars, loadVars, apiVars>>

\* _kmf_model_per_day_and_video_cat(day, category, full_df)
EstimateGroup ==
    /\ kmf.pc = "idle"
    /\ \E day \in AskedDays, category \in AskedCategories :
          kmf' = kmf_model_per_day_and_video_cat(day, category, full_df)
    /\ UNCHANGED full_df
    /\ UNCHANGED <<labelVars, parseVars, cleanVars, encodeVars, predictVars, scaleVars, curveVars, startVars, loadVars, apiVars>>

NextGroup == AddGroupRow \/ EstimateGroup

SpecGroup == InitGroup /\ [][NextGroup]_vars

\* the labels of the call are among those the training table holds
AskedDayIsValid == \E i \in DOMAIN full_df : full_df[i].dayOfWeek = kmf.day
AskedCategoryIsValid ==
    \E i \in DOMAIN full_df : full_df[i].videoCategory = str_title(kmf.category)
GroupHasRows ==
    \E i \in DOMAIN full_df :
        /\ full_df[i].dayOfWeek = kmf.day
        /\ full_df[i].videoCategory = str_title(kmf.category)

\* C24: a call whose day or whose category, in title case, is not among the
\* values of the training table fails with an error that names the valid
\* days and categories and fits no estimator; a call with a valid day and
\* category whose group has rows returns the category label.
C24_InvalidGroupFails ==
    kmf.pc = "done" =>
        /\ ~(AskedDayIsValid /\ AskedCategoryIsValid) =>
              /\ kmf.err = "InvalidGroupError"
              /\ kmf.valid.days = {full_df[i].dayOfWeek : i \in DOMAIN full_df}
              /\ kmf.valid.categories = {full_df[i].videoCategory : i \in DOMAIN full_df}
              /\ ~kmf.fitted
        /\ GroupHasRows =>
              /\ kmf.err = "none"
              /\ kmf.fitted
              /\ kmf.label = str_title(kmf.category)

\* a table with Monday and Comedy rows, asked for Sunday
C24_Witness ==
    /\ kmf.pc = "done"
    /\ kmf.day = "Sunday" /\ AskedCategoryIsValid
    /\ Len(full_df) = MaxGroupRows
    /\ kmf.err = "InvalidGroupError" /\ ~kmf.fitted
    /\ kmf.valid.days # {}

====
